---- MODULE Spec2Model ----
(***************************************************************************)
(* Model of the fetch engine of the ISE MCP server: ISEApiClient           *)
(* (src/src/ise_mcp_server/api/client.py) with its response cache, its     *)
(* two-tier rate limiter, its retry loop and its paginator, driven by      *)
(* concurrent callers and a nondeterministic backend.                      *)
(*                                                                         *)
(* Time is counted in ticks of half a second (the resolution of            *)
(* MIN_BACKOFF_TIME); bucket levels are counted in 1/TicksPerSecond of a   *)
(* token so that the leak of one tick is a whole number.                   *)
(***************************************************************************)
EXTENDS Integers, Sequences, FiniteSets, TLC

(* ------------------------------ bounds -------------------------------- *)

\* number of concurrent caller invocations of ISEApiClient.get
NumFetches == 2

\* the clock stops after this many ticks
MaxTime == 2

\* number of records the backend holds for the largest collection
MaxTotal == 3

\* the TTL (seconds) an operator installs through cache_config
ShortTTL == 1

Fetches == 1..NumFetches

(* ------------------------- program constants -------------------------- *)

TicksPerSecond == 2

DEFAULT_PAGE_SIZE == 20
MAX_PAGE_SIZE == 100
DEFAULT_CACHE_TTL == 300
MIN_BACKOFF_TIME == TicksPerSecond \div 2
MAX_BACKOFF_TIME == 10 * TicksPerSecond
MAX_RETRIES == 3

GLOBAL_RATE_LIMIT == 30
DEFAULT_CATEGORY_RATE_LIMIT == 10
CATEGORY_RATE_LIMITS ==
    [auth |-> 5, device |-> 15, policy |-> 8, default |-> DEFAULT_CATEGORY_RATE_LIMIT]

Categories == DOMAIN CATEGORY_RATE_LIMITS
Buckets == {"global"} \cup Categories

ISE_BASE == "https://ise"

\* The endpoint paths the callers use.  Each is a pattern of
\* ENDPOINT_CATEGORIES, and get_endpoint_category gives it the category of
\* the first pattern it contains; a path that contains none is "default".
DevicePath == "/ers/config/networkdevice"
AuthPath == "/ers/config/internaluser"
Paths == {DevicePath, AuthPath}

\* A path or a pattern taken apart: the sequence of its pieces, cut where
\* one pattern ends inside another ("/ers/config/endpoint" inside
\* "/ers/config/endpointgroup").  "x" is a piece no pattern has, such as
\* an id or the name of another resource.
Conf == "/ers/config/"

ENDPOINT_CATEGORIES ==
    << [pattern |-> <<Conf, "identity", "group">>, category |-> "auth"],
       [pattern |-> <<Conf, "idstoresequence">>, category |-> "auth"],
       [pattern |-> <<Conf, "internaluser">>, category |-> "auth"],
       [pattern |-> <<Conf, "adminuser">>, category |-> "auth"],
       [pattern |-> <<Conf, "activedirectory">>, category |-> "auth"],
       [pattern |-> <<Conf, "networkdevice">>, category |-> "device"],
       [pattern |-> <<Conf, "endpoint">>, category |-> "device"],
       [pattern |-> <<Conf, "node">>, category |-> "device"],
       [pattern |-> <<Conf, "endpoint", "group">>, category |-> "device"],
       [pattern |-> <<"/api/v1/policy">>, category |-> "policy"],
       [pattern |-> <<Conf, "authorizationprofile">>, category |-> "policy"],
       [pattern |-> <<Conf, "allowedprotocols">>, category |-> "policy"],
       [pattern |-> <<Conf, "sgacl">>, category |-> "policy"],
       [pattern |-> <<Conf, "sgt">>, category |-> "policy"] >>

\* the pieces of the paths the callers use
Pieces(api_path) ==
    CASE api_path = AuthPath -> <<Conf, "internaluser">>
      [] api_path = DevicePath -> <<Conf, "networkdevice">>
      [] OTHER -> <<"x">>

\* pattern in path: the pattern occurs in the path, piece by piece
Contains(path, pattern) ==
    \E i \in 0..(Len(path) - Len(pattern)) :
        SubSeq(path, i + 1, i + Len(pattern)) = pattern

\* the loop of get_endpoint_category from entry i on
RECURSIVE MatchFrom(_, _)
MatchFrom(path, i) ==
    IF i > Len(ENDPOINT_CATEGORIES) THEN "default"
    ELSE IF Contains(path, ENDPOINT_CATEGORIES[i].pattern)
         THEN ENDPOINT_CATEGORIES[i].category
         ELSE MatchFrom(path, i + 1)

\* the category of the last entry that matches
MatchCategory_LastMatch(path) ==
    LET hits == {i \in 1..Len(ENDPOINT_CATEGORIES) :
                    Contains(path, ENDPOINT_CATEGORIES[i].pattern)}
    IN  IF hits = {} THEN "default"
        ELSE ENDPOINT_CATEGORIES[CHOOSE i \in hits : \A j \in hits : j <= i].category

\* for mapping in ENDPOINT_CATEGORIES: if mapping["pattern"] in api_path:
\* return mapping["category"]; return "default"
MatchCategory(path) == MatchFrom(path, 1)

get_endpoint_category(api_path) == MatchCategory(Pieces(api_path))

Min(a, b) == IF a <= b THEN a ELSE b
Max(a, b) == IF a >= b THEN a ELSE b

RECURSIVE Pow2(_)
Pow2(n) == IF n = 0 THEN 1 ELSE 2 * Pow2(n - 1)

(* ------------------------------ documents ----------------------------- *)

\* A JSON document as far as the paginator looks into it: whether it has a
\* 'SearchResult' record, whether that record has 'total' and 'resources'.
Doc(hasSR, hasTotal, total, hasRes, resources) ==
    [hasSR |-> hasSR, hasTotal |-> hasTotal, total |-> total,
     hasRes |-> hasRes, resources |-> resources]

NoDoc == Doc(FALSE, FALSE, 0, FALSE, <<>>)

\* json.dumps / json.loads of a document
JsonDumps(doc) == <<"json", doc>>
JsonLoads(s) == s[2]

\* dict.get('resources', [])
GetResources(doc) == IF doc.hasRes THEN doc.resources ELSE <<>>

\* Optional[T]: the empty set is None, {v} is the value v
None == {}
Some(v) == {v}
Value(opt) == CHOOSE v \in opt : TRUE
OptionalBool == {None, Some(TRUE), Some(FALSE)}

(* ------------------------------- params ------------------------------- *)

\* A parameter map is a function from parameter names to values.
EmptyParams == [k \in {} |-> 0]

HasKey(params, k) == k \in DOMAIN params

SetParam(params, k, v) ==
    [x \in DOMAIN params \cup {k} |-> IF x = k THEN v ELSE params[x]]

WithoutKey(params, k) == [x \in DOMAIN params \ {k} |-> params[x]]

\* the (size, page) combinations callers supply
CallerParams ==
    { EmptyParams,
      SetParam(EmptyParams, "size", 1),
      SetParam(EmptyParams, "size", 2),
      SetParam(SetParam(EmptyParams, "size", 2), "page", 2) }

\* f"{url}:{json.dumps(params, sort_keys=True)}"
_get_cache_key(url, params) == <<"", url, params>>

\* f"paginated:{key}"
PaginatedKey(key) == <<"paginated:", key[2], key[3]>>

\* _get_cache_key on the dict as Python holds it.  A dict is the sequence
\* of its <<name, value>> items in insertion order, the names distinct; a
\* text is the sequence of its pieces.  KeyOrder is the order sort_keys
\* puts the names in.
KeyOrder == <<"filter", "page", "size">>

Names(d) == {d[i][1] : i \in 1..Len(d)}

Item(d, name) == d[CHOOSE i \in 1..Len(d) : d[i][1] = name]

\* json.dumps(d, sort_keys=sort_keys): the items in insertion order, or in
\* the order of their names
json_dumps(d, sort_keys) ==
    IF sort_keys
    THEN LET names == SelectSeq(KeyOrder, LAMBDA name : name \in Names(d))
         IN  <<"{">> \o [i \in 1..Len(names) |-> Item(d, names[i])] \o <<"}">>
    ELSE <<"{">> \o d \o <<"}">>

\* json.dumps(params) if params else "{}"
sorted_params_Unsorted(params) ==
    IF params # None /\ Value(params) # <<>>
    THEN json_dumps(Value(params), FALSE) ELSE <<"{", "}">>

\* sorted_params = json.dumps(params, sort_keys=True) if params else "{}",
\* params being None or a dict
sorted_params(params) ==
    IF params # None /\ Value(params) # <<>>
    THEN json_dumps(Value(params), TRUE) ELSE <<"{", "}">>

\* f"{url}:{sorted_params}"
CacheKeyText(url, params) == <<url, ":">> \o sorted_params(params)

(* ------------------------------ backend ------------------------------- *)

\* number of records the backend holds under a path
BackendTotal(api_path) == IF api_path = AuthPath THEN MaxTotal ELSE MaxTotal - 1

\* the records of one page: the backend serves page 1 and DEFAULT_PAGE_SIZE
\* records when the request names no page or size
PageResources(api_path, params) ==
    LET size == IF HasKey(params, "size") THEN params["size"] ELSE DEFAULT_PAGE_SIZE
        page == IF HasKey(params, "page") THEN params["page"] ELSE 1
        first == (page - 1) * size
        count == Max(0, Min(size, BackendTotal(api_path) - first))
    IN  [i \in 1..count |-> <<api_path, first + i>>]

\* the document shapes a 2xx response can have
Shapes == {"full", "no_resources", "no_total", "no_search_result"}

BackendDoc(api_path, params, shape) ==
    CASE shape = "full" ->
            Doc(TRUE, TRUE, BackendTotal(api_path), TRUE, PageResources(api_path, params))
      [] shape = "no_resources" ->
            Doc(TRUE, TRUE, BackendTotal(api_path), FALSE, <<>>)
      [] shape = "no_total" ->
            Doc(TRUE, FALSE, 0, TRUE, PageResources(api_path, params))
      [] OTHER -> NoDoc

\* What one client.get of httpx can end in: a response with a status code
\* and a body that is JSON or not, a httpx.RequestError (connection refused,
\* timeout, DNS failure), or any other exception.
Reply(kind, status, json, shape) ==
    [kind |-> kind, status |-> status, json |-> json, shape |-> shape]

Replies ==
    { Reply("response", 200, TRUE, sh) : sh \in Shapes } \cup
    { Reply("response", 200, FALSE, "no_search_result"),
      Reply("response", 429, TRUE, "no_search_result"),
      Reply("response", 404, TRUE, "no_search_result"),
      Reply("response", 500, TRUE, "no_search_result"),
      Reply("request_error", 0, FALSE, "no_search_result"),
      Reply("exception", 0, FALSE, "no_search_result") }

Is2xx(status) == status >= 200 /\ status < 300

(* ----------------------------- exceptions ----------------------------- *)

\* class RateLimitExceededError(ToolError); ToolError and the httpx errors
\* derive from Exception
IsInstance(cls, of) ==
    \/ cls = of
    \/ of = "Exception"
    \/ cls = "RateLimitExceededError" /\ of = "ToolError"

Raised(cls, msg) == [ok |-> FALSE, cls |-> cls, msg |-> msg, doc |-> NoDoc]
Returned(doc) == [ok |-> TRUE, cls |-> "", msg |-> "", doc |-> doc]

\* the exception that leaves the body of the try statement of
\* _execute_request, "" when the body runs to its return
RaisedInTry(reply) ==
    CASE reply.kind = "request_error" -> "RequestError"
      [] reply.kind = "exception" -> "Exception"
      [] reply.status = 429 -> "RateLimitExceededError"
      [] ~Is2xx(reply.status) -> "HTTPStatusError"
      [] ~reply.json -> "JSONDecodeError"
      [] OTHER -> ""

\* except clauses that return an empty document
ExceptHandler_Swallow(cls, reply) == Returned(NoDoc)

\* the except clauses of _execute_request, in order: the first clause whose
\* class the exception is an instance of handles it
ExceptHandler(cls, reply) ==
    CASE IsInstance(cls, "HTTPStatusError") ->
            IF reply.status = 429
            THEN Raised("RateLimitExceededError", "Rate limit exceeded")
            ELSE Raised("ToolError", "HTTP error occurred")
      [] IsInstance(cls, "RequestError") ->
            Raised("ToolError", "Request error occurred")
      [] OTHER ->
            Raised("ToolError", "An unexpected error occurred")

\* _execute_request without its cache write: what it returns or raises
ExecuteResult(api_path, params, reply) ==
    IF RaisedInTry(reply) = ""
    THEN Returned(BackendDoc(api_path, params, reply.shape))
    ELSE ExceptHandler(RaisedInTry(reply), reply)

\* a retry loop that backs off on every ToolError
RetriedClass_AnyToolError == "ToolError"

\* the class the retry loop of _make_rate_limited_request backs off on
RetriedClass == "RateLimitExceededError"

\* min(MIN_BACKOFF_TIME * 2 ** retries, MAX_BACKOFF_TIME), in ticks
BackoffTime(retries) == Min(MIN_BACKOFF_TIME * Pow2(retries), MAX_BACKOFF_TIME)

(* ------------------------------- state -------------------------------- *)

VARIABLES
    now,                \* the clock, in ticks
    cache,              \* self.cache: key -> [value, expires, timer]
    level,              \* bucket -> level of its limiter, in 1/TicksPerSecond tokens
    max_rate,           \* bucket -> max_rate of its limiter, in tokens per second
    probe,              \* the arguments and the results of a function called on its own
    cache_enabled,      \* self.cache_enabled
    cache_ttl,          \* self.cache_ttl, in seconds
    rate_limit_enabled, \* self.rate_limit_enabled
    pc,                 \* fetch -> where the call of get stands
    call,               \* fetch -> the arguments of the call of get
    request_params,     \* fetch -> request_params of the current single-page get
    pag,                \* fetch -> the locals of _get_all_pages
    retries,            \* fetch -> retries of _make_rate_limited_request
    wake,               \* fetch -> the time asyncio.sleep(backoff_time) ends
    result,             \* fetch -> what get returned or raised
    log                 \* fetch -> the events of the call so far (history)

vars == <<now, cache, level, max_rate, probe, cache_enabled, cache_ttl, rate_limit_enabled,
          pc, call, request_params, pag, retries, wake, result, log>>

NoCall == [api_path |-> "", params |-> EmptyParams, auto_paginate |-> FALSE,
           use_cache |-> FALSE]
NoPag == [total_pages |-> 0, combined |-> NoDoc, resources |-> <<>>]
NoResult == [ok |-> FALSE, cls |-> "", msg |-> "", doc |-> NoDoc]
NoReply == Reply("", 0, FALSE, "")
NoProbe == [url |-> "", params |-> <<None, None>>, keys |-> <<>>]

\* One event of a call.  ev is "lookup" (the cache was asked for the merged
\* result; found says whether caching was on and the entry there), "get" (a
\* single-page get starts with params; found as before), "hit" (the log
\* line of a cache hit), "acquire" (a token of bucket taken), "send" (a
\* request with params handed to the transport), "reply" (the transport
\* answered), "sleep" (a backoff of delay ticks), "returned" (the
\* single-page get returned doc), "raised" (it raised cls with msg).
Event(ev, bucket, params, found, reply, delay, res) ==
    [ev |-> ev, bucket |-> bucket, params |-> params, found |-> found,
     reply |-> reply, delay |-> delay, cls |-> res.cls, msg |-> res.msg,
     doc |-> res.doc]

EvLookup(found) == Event("lookup", "paginated:", EmptyParams, found, NoReply, 0, NoResult)
EvGet(params, found) == Event("get", "", params, found, NoReply, 0, NoResult)
EvHit(prefix) == Event("hit", prefix, EmptyParams, TRUE, NoReply, 0, NoResult)
EvAcquire(bucket) == Event("acquire", bucket, EmptyParams, FALSE, NoReply, 0, NoResult)
EvSend(params) == Event("send", "", params, FALSE, NoReply, 0, NoResult)
EvReply(reply) == Event("reply", "", EmptyParams, FALSE, reply, 0, NoResult)
EvSleep(delay) == Event("sleep", "", EmptyParams, FALSE, NoReply, delay, NoResult)
EvEnd(res) ==
    Event(IF res.ok THEN "returned" ELSE "raised", "", EmptyParams, FALSE, NoReply, 0, res)
EvCancel == Event("cancelled", "", EmptyParams, FALSE, NoReply, 0, NoResult)

(* ------------------------------- cache -------------------------------- *)

\* aiocache's memory cache: set(key, value, ttl) replaces the entry and,
\* when ttl is not zero, schedules its deletion ttl seconds later (timer);
\* with a ttl of zero no deletion is scheduled.  expires is the time the
\* ttl of the entry is over.
CacheSet_Drop(c, key, value, ttl) == c

\* a cache that keeps no page after the first under its single-page key
CacheSet_PageOneOnly(c, key, value, ttl) ==
    IF key[1] = "" /\ HasKey(key[3], "page") /\ key[3]["page"] > 1 THEN c
    ELSE [k \in DOMAIN c \cup {key} |->
            IF k = key THEN [value |-> value, expires |-> now + ttl * TicksPerSecond,
                             timer |-> ttl # 0]
                       ELSE c[k]]

CacheSet(c, key, value, ttl) ==
    [k \in DOMAIN c \cup {key} |->
        IF k = key THEN [value |-> value, expires |-> now + ttl * TicksPerSecond,
                         timer |-> ttl # 0]
                   ELSE c[k]]

\* cache.get(key) is not None
CacheHas(c, key) == key \in DOMAIN c

CacheGet(c, key) == c[key].value

\* the entries whose deletion is due at time t are gone
Expire(c, t) ==
    LET live == {k \in DOMAIN c : ~c[k].timer \/ c[k].expires > t}
    IN  [k \in live |-> c[k]]

(* ---------------------------- rate limiter ---------------------------- *)

\* the limiters of the constructor: AsyncLimiter(global_rate_limit, 1) and
\* one AsyncLimiter(rate, 1) for each category of CATEGORY_RATE_LIMITS,
\* global_rate_limit being GLOBAL_RATE_LIMIT as the environment sets it
Limiters(global_rate_limit) ==
    [b \in Buckets |->
        IF b = "global" THEN global_rate_limit ELSE CATEGORY_RATE_LIMITS[b]]

\* limiter.max_rate
MaxRate(bucket) == max_rate[bucket]

\* a limiter that lets every request in
HasCapacity_Always(bucket) == TRUE

\* a limiter that is held while a request is in flight
HasCapacity_NoneInFlight(bucket) ==
    /\ level[bucket] + TicksPerSecond <= MaxRate(bucket) * TicksPerSecond
    /\ \A f \in Fetches : pc[f] # "in_flight"

\* AsyncLimiter.has_capacity(1): the level plus one token is within max_rate
HasCapacity(bucket) == level[bucket] + TicksPerSecond <= MaxRate(bucket) * TicksPerSecond

\* self.category_limiters.get(category, self.category_limiters["default"])
CategoryLimiter(api_path) ==
    IF get_endpoint_category(api_path) \in Categories
    THEN get_endpoint_category(api_path) ELSE "default"

\* the category limiter is entered before the global one
LimiterOrder_CategoryFirst(api_path) == <<CategoryLimiter(api_path), "global">>

\* async with self.global_limiter: async with category_limiter: the
\* limiters of an attempt in the order they are entered
LimiterOrder(api_path) == <<"global", CategoryLimiter(api_path)>>

\* buckets that never leak
Leak_Never(lv) == lv

\* one tick leaks max_rate / TicksPerSecond tokens out of every bucket
Leak(lv) == [b \in Buckets |-> Max(0, lv[b] - MaxRate(b))]

(* -------------------------------- Init -------------------------------- *)

\* self.cache_ttl of ISEApiClient(cache_ttl=...)
InitialTTL(cache_ttl_arg) ==
    IF cache_ttl_arg = None THEN DEFAULT_CACHE_TTL ELSE Value(cache_ttl_arg)

\* ISEApiClient(cache_ttl, cache_enabled, rate_limit_enabled): an empty
\* cache, full buckets, rate limiting as the argument or RATE_LIMIT_ENABLED
\* of the environment says
Init ==
    /\ now = 0
    /\ cache = [k \in {} |-> 0]
    /\ level = [b \in Buckets |-> 0]
    /\ max_rate = Limiters(GLOBAL_RATE_LIMIT)
    /\ probe = NoProbe
    /\ cache_enabled \in BOOLEAN
    /\ cache_ttl = InitialTTL(Some(ShortTTL))
    /\ rate_limit_enabled \in BOOLEAN
    /\ pc = [f \in Fetches |-> "idle"]
    /\ call = [f \in Fetches |-> NoCall]
    /\ request_params = [f \in Fetches |-> EmptyParams]
    /\ pag = [f \in Fetches |-> NoPag]
    /\ retries = [f \in Fetches |-> 0]
    /\ wake = [f \in Fetches |-> 0]
    /\ result = [f \in Fetches |-> NoResult]
    /\ log = [f \in Fetches |-> <<>>]

(* ------------------------------ paginator ----------------------------- *)

Url(api_path) == <<ISE_BASE, api_path>>

\* request_params of _get_all_pages before the first page is fetched
FirstPageParams(params) ==
    SetParam(IF HasKey(params, "size") THEN params
             ELSE SetParam(params, "size", MAX_PAGE_SIZE), "page", 1)

\* a key that all endpoints share
PaginationCacheKey_AnyPath(api_path, rp) ==
    PaginatedKey(_get_cache_key(Url(AuthPath), WithoutKey(rp, "page")))

\* a key that keeps the page
PaginationCacheKey_KeepPage(api_path, rp) ==
    PaginatedKey(_get_cache_key(Url(api_path), rp))

\* pagination_cache_key
PaginationCacheKey(api_path, rp) ==
    PaginatedKey(_get_cache_key(Url(api_path), WithoutKey(rp, "page")))

\* a // b of Python for b # 0: the quotient rounded towards minus infinity
FloorDiv(a, b) == IF b > 0 THEN a \div b ELSE (0 - a) \div (0 - b)

\* the page count rounded down
TotalPages_Floor(total_records, page_size) == total_records \div page_size

\* the page count one too high when the division is exact
TotalPages_OneMore(total_records, page_size) == total_records \div page_size + 1

\* (total_records + page_size - 1) // page_size, the floor division of
\* Python, for a page_size that is not zero
TotalPages(total_records, page_size) ==
    FloorDiv(total_records + page_size - 1, page_size)

\* resources = page_resources
Extend_Replace(resources, page_resources) == page_resources

\* resources.extend(page_resources)
Extend(resources, page_resources) == resources \o page_resources

\* the cached response is looked up and then not used
ServedFromCache_Never(should_use_cache, found) == FALSE

\* if should_use_cache: cached = cache.get(key); if cached is not None: return
ServedFromCache(should_use_cache, found) == should_use_cache /\ found

\* combined_result with combined_result['SearchResult']['resources'] = resources
Combined(first, res) == [first EXCEPT !.hasRes = TRUE, !.resources = res]

\* get returns or raises: the call of fetch f is over
Finish(f, res, c, lg) ==
    /\ pc' = [pc EXCEPT ![f] = "done"]
    /\ result' = [result EXCEPT ![f] = res]
    /\ cache' = c
    /\ log' = [log EXCEPT ![f] = lg]
    /\ UNCHANGED <<request_params, pag>>

\* _get_all_pages calls self.get for the page after the current one
\* the loop that leaves a page out
AdvancePage_Skip(rp) == SetParam(rp, "page", rp["page"] + 2)

\* request_params['page'] = page, for the next page of range(2, total_pages + 1)
AdvancePage(rp) == SetParam(rp, "page", rp["page"] + 1)

NextPage(f, newpag, c, lg) ==
    /\ pc' = [pc EXCEPT ![f] = "lookup"]
    /\ request_params' = [request_params EXCEPT ![f] = AdvancePage(@)]
    /\ pag' = [pag EXCEPT ![f] = newpag]
    /\ cache' = c
    /\ log' = [log EXCEPT ![f] = lg]
    /\ UNCHANGED result

\* the merged document is returned and not cached
Merge_NoCacheWrite(f, resources, c, lg) ==
    Finish(f, Returned(Combined(pag[f].combined, resources)), c, lg)

\* the end of _get_all_pages after the loop over the pages: the merged
\* document is cached and returned
Merge(f, resources, c, lg) ==
    LET combined_result == Combined(pag[f].combined, resources)
        key == PaginationCacheKey(call[f].api_path, request_params[f])
    IN  Finish(f, Returned(combined_result),
               IF call[f].use_cache
               THEN CacheSet(c, key, JsonDumps(combined_result), cache_ttl)
               ELSE c,
               lg)

\* a loop that takes any document a page request returns
PageAccepted_AnyDocument(res) == res.ok

\* the try block of the page loop runs to its end: the get of the page
\* returned and page_response['SearchResult'] raised no KeyError
PageAccepted(res) == res.ok /\ res.doc.hasSR

\* What follows the end of a single-page get of fetch f with res (returned
\* or raised), c being the cache and lg the log at that point: get itself
\* ends when it was called without auto_paginate, otherwise _get_all_pages
\* goes on from the page it waited for.
AfterGet(f, res, c, log0) ==
    LET lg == Append(log0, EvEnd(res)) IN
    IF ~call[f].auto_paginate THEN Finish(f, res, c, lg)
    ELSE IF request_params[f]["page"] = 1
    THEN IF ~res.ok THEN Finish(f, res, c, lg)
         ELSE IF ~res.doc.hasSR \/ ~res.doc.hasTotal THEN Finish(f, res, c, lg)
         ELSE IF request_params[f]["size"] = 0
              THEN Finish(f, Raised("ZeroDivisionError",
                                    "integer division or modulo by zero"), c, lg)
         ELSE IF TotalPages(res.doc.total, request_params[f]["size"]) <= 1
              THEN Finish(f, res, c, lg)
              ELSE NextPage(f, [total_pages |-> TotalPages(res.doc.total,
                                                    request_params[f]["size"]),
                                combined |-> res.doc,
                                resources |-> GetResources(res.doc)], c, lg)
    ELSE IF PageAccepted(res)
         THEN LET resources == Extend(pag[f].resources, GetResources(res.doc))
              IN  IF request_params[f]["page"] < pag[f].total_pages
                  THEN NextPage(f, [pag[f] EXCEPT !.resources = resources], c, lg)
                  ELSE Merge(f, resources, c, lg)
         ELSE Merge(f, pag[f].resources, c, lg)

(* ------------------------------- actions ------------------------------ *)

\* A caller invokes get(api_path, params, auto_paginate, use_cache).  With
\* auto_paginate the call runs into _get_all_pages up to the lookup of the
\* merged result.
\* a get that follows the setting of the instance whatever the request says
ShouldUseCache_InstanceWins(use_cache, enabled) == enabled

\* should_use_cache = self.cache_enabled if use_cache is None else use_cache
ShouldUseCache(use_cache, enabled) ==
    IF use_cache = None THEN enabled ELSE Value(use_cache)

GetCall(f, api_path, params, auto_paginate, use_cache) ==
    LET should_use_cache == ShouldUseCache(use_cache, cache_enabled)
        rp == FirstPageParams(params)
        key == PaginationCacheKey(api_path, rp)
        found == should_use_cache /\ CacheHas(cache, key)
    IN  /\ pc[f] = "idle"
        /\ call' = [call EXCEPT ![f] =
                [api_path |-> api_path, params |-> params,
                 auto_paginate |-> auto_paginate, use_cache |-> should_use_cache]]
        /\ IF auto_paginate
           THEN IF ServedFromCache(should_use_cache, CacheHas(cache, key))
                THEN /\ pc' = [pc EXCEPT ![f] = "done"]
                     /\ result' = [result EXCEPT
                            ![f] = Returned(JsonLoads(CacheGet(cache, key)))]
                     /\ log' = [log EXCEPT ![f] =
                            <<EvLookup(found), EvHit("paginated:")>>]
                     /\ UNCHANGED request_params
                ELSE /\ pc' = [pc EXCEPT ![f] = "lookup"]
                     /\ request_params' = [request_params EXCEPT ![f] = rp]
                     /\ log' = [log EXCEPT ![f] = <<EvLookup(found)>>]
                     /\ UNCHANGED result
           ELSE /\ pc' = [pc EXCEPT ![f] = "lookup"]
                /\ request_params' = [request_params EXCEPT ![f] = params]
                /\ UNCHANGED <<result, log>>
        /\ UNCHANGED <<now, cache, level, max_rate, probe, cache_enabled, cache_ttl,
                       rate_limit_enabled, pag, retries, wake>>

\* get without auto_paginate up to the call of _make_rate_limited_request:
\* the cache lookup of the single page
PageLookup(f) ==
    LET key == _get_cache_key(Url(call[f].api_path), request_params[f])
        found == call[f].use_cache /\ CacheHas(cache, key)
        lg == Append(log[f], EvGet(request_params[f], found))
    IN  /\ pc[f] = "lookup"
        /\ IF ServedFromCache(call[f].use_cache, CacheHas(cache, key))
           THEN /\ AfterGet(f, Returned(JsonLoads(CacheGet(cache, key))), cache,
                            Append(lg, EvHit("")))
                /\ UNCHANGED retries
           ELSE /\ pc' = [pc EXCEPT ![f] = "attempt"]
                /\ retries' = [retries EXCEPT ![f] = 0]
                /\ log' = [log EXCEPT ![f] = lg]
                /\ UNCHANGED <<cache, request_params, pag, result>>
        /\ UNCHANGED <<now, level, max_rate, probe, cache_enabled, cache_ttl,
                       rate_limit_enabled, call, wake>>

\* the limiters are entered whatever the setting is
UseLimiters_Always == TRUE

\* if self.rate_limit_enabled, read at the head of every attempt
UseLimiters == rate_limit_enabled

\* The head of the retry loop once the backoff sleep, if any, is over: with
\* rate limiting on the global limiter is entered, otherwise the request
\* goes out at once.
Attempt(f) ==
    /\ pc[f] = "attempt"
    /\ now >= wake[f]
    /\ IF UseLimiters
       THEN LET bucket == LimiterOrder(call[f].api_path)[1]
            IN  /\ HasCapacity(bucket)
                /\ level' = [level EXCEPT ![bucket] = @ + TicksPerSecond]
                /\ pc' = [pc EXCEPT ![f] = "acquire_category"]
                /\ log' = [log EXCEPT ![f] = Append(@, EvAcquire(bucket))]
       ELSE /\ pc' = [pc EXCEPT ![f] = "in_flight"]
            /\ log' = [log EXCEPT ![f] = Append(@, EvSend(request_params[f]))]
            /\ UNCHANGED level
    /\ UNCHANGED <<now, cache, max_rate, probe, cache_enabled, cache_ttl,
                   rate_limit_enabled, call, request_params, pag, retries, wake,
                   result>>

\* the category limiter is entered and _execute_request sends the request
AcquireCategory(f) ==
    LET bucket == LimiterOrder(call[f].api_path)[2]
    IN  /\ pc[f] = "acquire_category"
        /\ HasCapacity(bucket)
        /\ level' = [level EXCEPT ![bucket] = @ + TicksPerSecond]
        /\ pc' = [pc EXCEPT ![f] = "in_flight"]
        /\ log' = [log EXCEPT ![f] =
                @ \o <<EvAcquire(bucket), EvSend(request_params[f])>>]
        /\ UNCHANGED <<now, cache, max_rate, probe, cache_enabled, cache_ttl,
                       rate_limit_enabled, call, request_params, pag, retries,
                       wake, result>>

\* The transport answers the request in flight.  _execute_request caches
\* and returns the body or raises; _make_rate_limited_request backs off on
\* the class it retries and lets everything else through.
\* a loop that backs off and tries again after every error, without a bound
RetryAgain_Unbounded(cls, tried) == TRUE

\* the error is caught by `except RateLimitExceededError` and retries has
\* not reached MAX_RETRIES: the loop sleeps and tries again
RetryAgain(cls, tried) == IsInstance(cls, RetriedClass) /\ tried < MAX_RETRIES

Response(f, reply) ==
    LET res == ExecuteResult(call[f].api_path, request_params[f], reply)
        key == _get_cache_key(Url(call[f].api_path), request_params[f])
        c == IF res.ok /\ call[f].use_cache
             THEN CacheSet(cache, key, JsonDumps(res.doc), cache_ttl)
             ELSE cache
        lg == Append(log[f], EvReply(reply))
    IN  /\ pc[f] = "in_flight"
        /\ IF ~res.ok /\ RetryAgain(res.cls, retries[f])
           THEN /\ wake' = [wake EXCEPT ![f] = now + BackoffTime(retries[f])]
                /\ retries' = [retries EXCEPT ![f] = @ + 1]
                /\ pc' = [pc EXCEPT ![f] = "attempt"]
                /\ log' = [log EXCEPT
                        ![f] = Append(lg, EvSleep(BackoffTime(retries[f])))]
                /\ UNCHANGED <<cache, request_params, pag, result>>
           ELSE /\ AfterGet(f, res, c, lg)
                /\ UNCHANGED <<retries, wake>>
        /\ UNCHANGED <<now, level, max_rate, probe, cache_enabled, cache_ttl,
                       rate_limit_enabled, call>>

\* half a second passes: the buckets leak and the entries that are due go
Tick ==
    /\ now < MaxTime
    /\ now' = now + 1
    /\ level' = Leak(level)
    /\ cache' = Expire(cache, now + 1)
    /\ UNCHANGED <<max_rate, probe, cache_enabled, cache_ttl, rate_limit_enabled, pc,
                   call, request_params, pag, retries, wake, result, log>>

\* the calls and the replies of the concurrent system
ConcurrentParams == {SetParam(EmptyParams, "size", 1)}
ConcurrentUseCache == {None, Some(FALSE)}
ConcurrentReplies ==
    { Reply("response", 200, TRUE, "full"),
      Reply("response", 200, TRUE, "no_search_result"),
      Reply("response", 429, TRUE, "no_search_result"),
      Reply("request_error", 0, FALSE, "no_search_result") }

\* NumFetches callers run get concurrently
Next ==
    \/ \E f \in Fetches, api_path \in Paths, params \in ConcurrentParams,
          auto_paginate \in BOOLEAN, use_cache \in ConcurrentUseCache :
            GetCall(f, api_path, params, auto_paginate, use_cache)
    \/ \E f \in Fetches : PageLookup(f)
    \/ \E f \in Fetches : Attempt(f)
    \/ \E f \in Fetches : AcquireCategory(f)
    \/ \E f \in Fetches, reply \in ConcurrentReplies : Response(f, reply)
    \/ Tick

Spec == Init /\ [][Next]_vars

\* one caller runs get once, with every argument and every reply
NextOne ==
    \/ \E api_path \in Paths, params \in CallerParams,
          auto_paginate \in BOOLEAN, use_cache \in OptionalBool :
            GetCall(1, api_path, params, auto_paginate, use_cache)
    \/ PageLookup(1)
    \/ Attempt(1)
    \/ AcquireCategory(1)
    \/ \E reply \in Replies : Response(1, reply)
    \/ Tick

SpecOne == Init /\ [][NextOne]_vars

(* ------------------- the limiters under load ------------------------- *)

\* ISE_GLOBAL_RATE_LIMIT of the environment of the loaded system: one more
\* than the rate of the device bucket
LowGlobalRate == 16

\* the lowest GLOBAL_RATE_LIMIT the environment can set
SlowGlobalRate == 1

\* The caller of fetch f is back after its call ended and may call again.
Recall(f) ==
    /\ pc[f] \in {"done", "cancelled"}
    /\ pc' = [pc EXCEPT ![f] = "idle"]
    /\ call' = [call EXCEPT ![f] = NoCall]
    /\ request_params' = [request_params EXCEPT ![f] = EmptyParams]
    /\ pag' = [pag EXCEPT ![f] = NoPag]
    /\ retries' = [retries EXCEPT ![f] = 0]
    /\ wake' = [wake EXCEPT ![f] = 0]
    /\ result' = [result EXCEPT ![f] = NoResult]
    /\ log' = [log EXCEPT ![f] = <<>>]
    /\ UNCHANGED <<now, cache, level, max_rate, probe, cache_enabled, cache_ttl,
                   rate_limit_enabled>>

\* the task of fetch f is suspended: in the cache lookup, in the backoff
\* sleep, in the acquire of a limiter that has no capacity, or in the
\* request
Suspended(f) ==
    \/ pc[f] \in {"lookup", "in_flight"}
    \/ pc[f] = "attempt" /\ now < wake[f]
    \/ pc[f] = "attempt" /\ UseLimiters
            /\ ~HasCapacity(LimiterOrder(call[f].api_path)[1])
    \/ pc[f] = "acquire_category" /\ ~HasCapacity(LimiterOrder(call[f].api_path)[2])

\* The task of fetch f is cancelled at the await it is suspended in.
\* CancelledError is no Exception, so no handler of get catches it, and
\* leaving "async with limiter" gives nothing back to the limiter.
Cancel(f) ==
    /\ Suspended(f)
    /\ pc' = [pc EXCEPT ![f] = "cancelled"]
    /\ result' = [result EXCEPT ![f] = Raised("CancelledError", "")]
    /\ log' = [log EXCEPT ![f] = Append(@, EvCancel)]
    /\ UNCHANGED <<now, cache, level, max_rate, probe, cache_enabled, cache_ttl,
                   rate_limit_enabled, call, request_params, pag, retries, wake>>

\* ISEApiClient(cache_enabled=False, rate_limit_enabled=True) in an
\* environment that sets ISE_GLOBAL_RATE_LIMIT to LowGlobalRate
InitLimiter ==
    /\ now = 0
    /\ cache = [k \in {} |-> 0]
    /\ level = [b \in Buckets |-> 0]
    /\ max_rate = Limiters(LowGlobalRate)
    /\ probe = NoProbe
    /\ cache_enabled = FALSE
    /\ cache_ttl = InitialTTL(Some(ShortTTL))
    /\ rate_limit_enabled = TRUE
    /\ pc = [f \in Fetches |-> "idle"]
    /\ call = [f \in Fetches |-> NoCall]
    /\ request_params = [f \in Fetches |-> EmptyParams]
    /\ pag = [f \in Fetches |-> NoPag]
    /\ retries = [f \in Fetches |-> 0]
    /\ wake = [f \in Fetches |-> 0]
    /\ result = [f \in Fetches |-> NoResult]
    /\ log = [f \in Fetches |-> <<>>]

LimiterReply == Reply("response", 200, TRUE, "full")

\* NumFetches callers call get for one page again and again, and a call
\* may be cancelled
NextLimiter ==
    \/ \E f \in Fetches, api_path \in Paths :
            GetCall(f, api_path, EmptyParams, FALSE, Some(FALSE))
    \/ \E f \in Fetches : PageLookup(f)
    \/ \E f \in Fetches : Attempt(f)
    \/ \E f \in Fetches : AcquireCategory(f)
    \/ \E f \in Fetches : Response(f, LimiterReply)
    \/ \E f \in Fetches : Cancel(f)
    \/ \E f \in Fetches : Recall(f)
    \/ Tick

SpecLimiter == InitLimiter /\ [][NextLimiter]_vars

(* --------------------- the settings at run time ---------------------- *)

\* the largest ttl cache_config is called with, in seconds
MaxTTL == 2

\* the values of CacheConfigInput.ttl: an int without a constraint, of
\* which zero and the positive values up to MaxTTL are drawn
ConfigTTLs == {None} \cup {Some(t) : t \in 0..MaxTTL}

\* the tool cache_config: each setting that is given replaces the client's
CacheConfig(enabled, ttl) ==
    /\ cache_enabled' = IF enabled = None THEN cache_enabled ELSE Value(enabled)
    /\ cache_ttl' = IF ttl = None THEN cache_ttl ELSE Value(ttl)
    /\ UNCHANGED <<now, cache, level, max_rate, probe, rate_limit_enabled, pc, call,
                   request_params, pag, retries, wake, result, log>>

\* configure_rate_limiting(enabled), and the tool rate_limit_config, which
\* assigns the same attribute and only logs the rates it is given
ConfigureRateLimiting(enabled) ==
    /\ rate_limit_enabled' =
            IF enabled = None THEN rate_limit_enabled ELSE Value(enabled)
    /\ UNCHANGED <<now, cache, level, max_rate, probe, cache_enabled, cache_ttl, pc,
                   call, request_params, pag, retries, wake, result, log>>

\* one caller calls get for one page again and again while the settings
\* of the cache and of the rate limiting are changed
NextConfig ==
    \/ \E params \in ConcurrentParams, use_cache \in OptionalBool :
            GetCall(1, AuthPath, params, FALSE, use_cache)
    \/ PageLookup(1)
    \/ Attempt(1)
    \/ AcquireCategory(1)
    \/ Response(1, LimiterReply)
    \/ Recall(1)
    \/ \E enabled \in OptionalBool, ttl \in ConfigTTLs : CacheConfig(enabled, ttl)
    \/ \E enabled \in OptionalBool : ConfigureRateLimiting(enabled)
    \/ Tick

SpecConfig == Init /\ [][NextConfig]_vars

(* ---------------------- _get_cache_key on its own -------------------- *)

\* the values of the parameters and the most items of a dict
ParamValues == {1, 2}
MaxItems == 2

KeyNames == {KeyOrder[i] : i \in 1..Len(KeyOrder)}

\* the dicts of at most MaxItems items, in every insertion order
Dicts ==
    UNION { { d \in [1..n -> KeyNames \X ParamValues] :
                \A i, j \in 1..n : i # j => d[i][1] # d[j][1] } : n \in 0..MaxItems }

\* params of _get_cache_key: None or a dict
ProbeParams == {None} \cup {Some(d) : d \in Dicts}

\* a client as Init makes it, and a URL and two values of params to
\* compute the keys of
InitKey ==
    /\ now = 0
    /\ cache = [k \in {} |-> 0]
    /\ level = [b \in Buckets |-> 0]
    /\ max_rate = Limiters(GLOBAL_RATE_LIMIT)
    /\ probe \in [url : {Url(api_path) : api_path \in Paths},
                  params : ProbeParams \X ProbeParams, keys : {<<>>}]
    /\ cache_enabled = TRUE
    /\ cache_ttl = InitialTTL(None)
    /\ rate_limit_enabled = TRUE
    /\ pc = [f \in Fetches |-> "idle"]
    /\ call = [f \in Fetches |-> NoCall]
    /\ request_params = [f \in Fetches |-> EmptyParams]
    /\ pag = [f \in Fetches |-> NoPag]
    /\ retries = [f \in Fetches |-> 0]
    /\ wake = [f \in Fetches |-> 0]
    /\ result = [f \in Fetches |-> NoResult]
    /\ log = [f \in Fetches |-> <<>>]

\* _get_cache_key(url, params) is called for both values of params
GetCacheKey ==
    /\ probe.keys = <<>>
    /\ probe' = [probe EXCEPT !.keys = <<CacheKeyText(probe.url, probe.params[1]),
                                         CacheKeyText(probe.url, probe.params[2])>>]
    /\ UNCHANGED <<now, cache, level, max_rate, cache_enabled, cache_ttl,
                   rate_limit_enabled, pc, call, request_params, pag, retries,
                   wake, result, log>>

SpecKey == InitKey /\ [][GetCacheKey]_vars

(* ------------------- the limiters in the long run -------------------- *)

\* Half a second passes, with no end of time: the buckets leak and the
\* entries that are due go.  The clock is read up to MaxTime only, which
\* nothing depends on when the cache is not used and nothing sleeps.
Refill ==
    /\ now' = Min(now + 1, MaxTime)
    /\ level' = Leak(level)
    /\ cache' = Expire(cache, now + 1)
    /\ UNCHANGED <<max_rate, probe, cache_enabled, cache_ttl, rate_limit_enabled,
                   pc, call, request_params, pag, retries, wake, result, log>>

\* NumFetches callers each walk the pages of the auth endpoint once, past
\* the cache, while time goes on
NextFair ==
    \/ \E f \in Fetches, params \in ConcurrentParams :
            GetCall(f, AuthPath, params, TRUE, Some(FALSE))
    \/ \E f \in Fetches : PageLookup(f)
    \/ \E f \in Fetches : Attempt(f)
    \/ \E f \in Fetches : AcquireCategory(f)
    \/ \E f \in Fetches : Response(f, LimiterReply)
    \/ Refill

\* Time passes, and the event loop runs a task whose acquire can go on.
SpecFair ==
    /\ InitLimiter
    /\ [][NextFair]_vars
    /\ WF_vars(Refill)
    /\ \A f \in Fetches : WF_vars(Attempt(f)) /\ WF_vars(AcquireCategory(f))

(* --------------------- page sizes out of range ----------------------- *)

\* the values of size a caller supplies in query_params, which is a dict
\* of any values: below, at the lower end of and above the range 1..100
CallerSizes == {0 - 1, 0, 1, MAX_PAGE_SIZE + 1}

SizeParams == {SetParam(EmptyParams, "size", size) : size \in CallerSizes}

\* a backend that answers with the records there are or refuses the request
SizeReplies ==
    { Reply("response", 200, TRUE, "full"),
      Reply("response", 400, TRUE, "no_search_result") }

\* one caller runs get once with a size of CallerSizes
NextSizes ==
    \/ \E api_path \in Paths, params \in SizeParams, auto_paginate \in BOOLEAN :
            GetCall(1, api_path, params, auto_paginate, Some(FALSE))
    \/ PageLookup(1)
    \/ Attempt(1)
    \/ AcquireCategory(1)
    \/ \E reply \in SizeReplies : Response(1, reply)
    \/ Tick

SpecSizes == Init /\ [][NextSizes]_vars

(* ------------------- get_endpoint_category on its own ----------------- *)

\* the most pieces of a path
MaxPieces == 3

\* calls of clear_cache in one behaviour
MaxClears == 2

\* characters of a name of an entry, and entries of a configuration
MaxName == 2
MaxEntries == 2

\* calls of rate_limit_config and get_rate_limit_info in one behaviour
MaxInfoCalls == 2

\* the pieces paths are made of: those of the patterns and one more
PathPieces ==
    UNION { {ENDPOINT_CATEGORIES[i].pattern[j] : j \in 1..Len(ENDPOINT_CATEGORIES[i].pattern)} :
                i \in 1..Len(ENDPOINT_CATEGORIES) } \cup {"x"}

ProbePaths == UNION { [1..n -> PathPieces] : n \in 0..MaxPieces }

\* a client as Init makes it, and a path to find the category of
InitCategory ==
    /\ now = 0
    /\ cache = [k \in {} |-> 0]
    /\ level = [b \in Buckets |-> 0]
    /\ max_rate = Limiters(GLOBAL_RATE_LIMIT)
    /\ probe \in [path : ProbePaths, category : {""}]
    /\ cache_enabled = TRUE
    /\ cache_ttl = InitialTTL(None)
    /\ rate_limit_enabled = TRUE
    /\ pc = [f \in Fetches |-> "idle"]
    /\ call = [f \in Fetches |-> NoCall]
    /\ request_params = [f \in Fetches |-> EmptyParams]
    /\ pag = [f \in Fetches |-> NoPag]
    /\ retries = [f \in Fetches |-> 0]
    /\ wake = [f \in Fetches |-> 0]
    /\ result = [f \in Fetches |-> NoResult]
    /\ log = [f \in Fetches |-> <<>>]

\* get_endpoint_category(path) is called
GetEndpointCategory ==
    /\ probe.category = ""
    /\ probe' = [probe EXCEPT !.category = MatchCategory(probe.path)]
    /\ UNCHANGED <<now, cache, level, max_rate, cache_enabled, cache_ttl,
                   rate_limit_enabled, pc, call, request_params, pag, retries,
                   wake, result, log>>

SpecCategory == InitCategory /\ [][GetEndpointCategory]_vars

(* --------------------------- the tool layer --------------------------- *)

\* dict.update: the items of b replace and extend those of a
Update(a, b) ==
    [k \in DOMAIN a \cup DOMAIN b |-> IF k \in DOMAIN b THEN b[k] ELSE a[k]]

\* tool_function up to the call of api_client.get: the arguments of get
\* for the input params (filter_expression and query_params, each None or
\* a value)
ToolArgs(input) ==
    LET with_filter ==
            IF input.filter_expression # None
            THEN SetParam(EmptyParams, "filter", Value(input.filter_expression))
            ELSE EmptyParams
        query_params ==
            IF input.query_params # None THEN Value(input.query_params)
            ELSE EmptyParams
    IN  [request_params |->
            Update(with_filter,
                   WithoutKey(WithoutKey(query_params, "auto_paginate"), "use_cache")),
         auto_paginate |->
            IF HasKey(query_params, "auto_paginate")
            THEN query_params["auto_paginate"] ELSE TRUE,
         use_cache |->
            IF HasKey(query_params, "use_cache")
            THEN Some(query_params["use_cache"]) ELSE None]

\* the values a caller gives the keys of query_params
QueryValues ==
    [auto_paginate |-> BOOLEAN, use_cache |-> BOOLEAN, size |-> {1},
     filter |-> {"name.CONTAINS.b"}, sortasc |-> {"name"}]

\* the dicts of S and those with the key k added
WithKey(S, k) == S \cup {SetParam(q, k, v) : q \in S, v \in QueryValues[k]}

\* query_params: a dict of some of the keys of QueryValues
QueryParams ==
    WithKey(WithKey(WithKey(WithKey(WithKey({EmptyParams},
        "auto_paginate"), "use_cache"), "size"), "filter"), "sortasc")

ToolInputs ==
    [filter_expression : {None, Some("name.CONTAINS.a")},
     query_params : {None} \cup {Some(q) : q \in QueryParams}]

\* a client as Init makes it, and the input of the tool call to come
InitTool ==
    /\ now = 0
    /\ cache = [k \in {} |-> 0]
    /\ level = [b \in Buckets |-> 0]
    /\ max_rate = Limiters(GLOBAL_RATE_LIMIT)
    /\ probe \in ToolInputs
    /\ cache_enabled \in BOOLEAN
    /\ cache_ttl = InitialTTL(None)
    /\ rate_limit_enabled = FALSE
    /\ pc = [f \in Fetches |-> "idle"]
    /\ call = [f \in Fetches |-> NoCall]
    /\ request_params = [f \in Fetches |-> EmptyParams]
    /\ pag = [f \in Fetches |-> NoPag]
    /\ retries = [f \in Fetches |-> 0]
    /\ wake = [f \in Fetches |-> 0]
    /\ result = [f \in Fetches |-> NoResult]
    /\ log = [f \in Fetches |-> <<>>]

\* the tool of the endpoint api_path is called with the input
ToolCall(f, api_path) ==
    GetCall(f, api_path, ToolArgs(probe).request_params,
            ToolArgs(probe).auto_paginate, ToolArgs(probe).use_cache)

\* one caller calls the tool of the device endpoint once
NextTool ==
    \/ ToolCall(1, DevicePath)
    \/ PageLookup(1)
    \/ \E reply \in SizeReplies : Response(1, reply)
    \/ Attempt(1)
    \/ Tick

SpecTool == InitTool /\ [][NextTool]_vars

(* ---------------------------- tool factory ---------------------------- *)

\* the characters names are made of: an upper-case letter, a lower-case
\* letter and the space
NameChars == {"T", "e", " "}

\* str.lower() of one character
Lower(c) == IF c = "T" THEN "t" ELSE c

\* name.replace(old, new), old and new being single characters
Replace(name, old, new) ==
    [i \in DOMAIN name |-> IF name[i] = old THEN new ELSE name[i]]

\* sanitize_tool_name without .lower()
sanitize_tool_name_NoLower(name) == Replace(name, " ", "_")

\* name.replace(" ", "_").lower(), a name being a sequence of characters
sanitize_tool_name(name) ==
    LET replaced == Replace(name, " ", "_")
    IN  [i \in DOMAIN replaced |-> Lower(replaced[i])]

\* entry.get(key, default)
EntryGet(entry, key, default) ==
    IF entry[key] = None THEN default ELSE Value(entry[key])

\* create_tool_from_url_entry(entry): None, or the tool information; the
\* function of the tool is given by the path and the input model it was
\* created with
create_tool_from_url_entry(entry) ==
    LET tool_name == sanitize_tool_name(EntryGet(entry, "Name", <<>>))
        api_url_path == EntryGet(entry, "URL", "")
        filterable_fields == EntryGet(entry, "FilterableFields", <<>>)
        supports_filtering == filterable_fields # <<>>
    IN  IF tool_name = <<>> \/ api_url_path = ""
        THEN None
        ELSE Some([name |-> tool_name,
                   function |-> [api_url_path |-> api_url_path,
                                 input_model |-> IF supports_filtering
                                                 THEN "FilterableToolInput"
                                                 ELSE "NonFilterableToolInput"],
                   supports_filtering |-> supports_filtering,
                   filterable_fields |-> filterable_fields])

\* create_tools_from_url_entries(entries)
RECURSIVE create_tools_from_url_entries(_)
create_tools_from_url_entries(entries) ==
    IF entries = <<>> THEN <<>>
    ELSE LET tool_info == create_tool_from_url_entry(Head(entries))
             tools == create_tools_from_url_entries(Tail(entries))
         IN  IF tool_info # None THEN <<Value(tool_info)>> \o tools ELSE tools

\* the names of at most MaxName characters
EntryNames == UNION {[1..n -> NameChars] : n \in 0..MaxName}

\* the entries of the configuration: each key is absent or has a value
UrlEntries ==
    [Name : {None} \cup {Some(name) : name \in EntryNames},
     URL : {None, Some(""), Some("/test/endpoint")},
     FilterableFields : {None, Some(<<>>), Some(<<"name", "description">>)}]

InitTools ==
    /\ now = 0
    /\ cache = [k \in {} |-> 0]
    /\ level = [b \in Buckets |-> 0]
    /\ max_rate = Limiters(GLOBAL_RATE_LIMIT)
    /\ probe \in [entries : UNION {[1..n -> UrlEntries] : n \in 0..MaxEntries},
                  tools : {<<>>}, created : {FALSE}]
    /\ cache_enabled = TRUE
    /\ cache_ttl = InitialTTL(None)
    /\ rate_limit_enabled = TRUE
    /\ pc = [f \in Fetches |-> "idle"]
    /\ call = [f \in Fetches |-> NoCall]
    /\ request_params = [f \in Fetches |-> EmptyParams]
    /\ pag = [f \in Fetches |-> NoPag]
    /\ retries = [f \in Fetches |-> 0]
    /\ wake = [f \in Fetches |-> 0]
    /\ result = [f \in Fetches |-> NoResult]
    /\ log = [f \in Fetches |-> <<>>]

\* tools = create_tools_from_url_entries(entries)
CreateTools ==
    /\ ~probe.created
    /\ probe' = [probe EXCEPT !.tools = create_tools_from_url_entries(probe.entries),
                              !.created = TRUE]
    /\ UNCHANGED <<now, cache, level, max_rate, cache_enabled, cache_ttl,
                   rate_limit_enabled, pc, call, request_params, pag, retries, wake,
                   result, log>>

NextTools == CreateTools

SpecTools == InitTools /\ [][NextTools]_vars

(* ------------------------------ clear_cache --------------------------- *)

\* Cache.MEMORY(namespace="ise_api"): the text "ise_api", cut in two pieces
\* so that a text it starts with can be written
CACHE_NAMESPACE == <<"ise", "_api">>

\* the start of the text the memory cache stores an entry under: the
\* namespace of the cache, then the key ("paginated:" or nothing, then the
\* url)
StoredKey(key) ==
    CACHE_NAMESPACE \o (IF key[1] = "" THEN <<>> ELSE <<key[1]>>) \o key[2]

\* text.startswith(prefix)
StartsWith(text, prefix) ==
    /\ Len(prefix) <= Len(text)
    /\ SubSeq(text, 1, Len(prefix)) = prefix

\* cache.clear(namespace) of aiocache's memory cache: with a namespace that
\* is not empty the entries whose stored key starts with it are deleted,
\* otherwise the whole cache is emptied
CacheClear(c, namespace) ==
    IF namespace # None /\ Value(namespace) # <<>>
    THEN LET kept == {k \in DOMAIN c : ~StartsWith(StoredKey(k), Value(namespace))}
         IN  [k \in kept |-> c[k]]
    ELSE [k \in {} |-> 0]

\* CacheClearInput.namespace: an optional text
ClearNamespaces ==
    {None, Some(<<>>), Some(<<"ise">>), Some(CACHE_NAMESPACE),
     Some(CACHE_NAMESPACE \o <<"paginated:">>), Some(<<"other">>)}

NoClear == [namespace |-> None, clears |-> 0]

\* clear_cache(namespace), and the tool cache_clear that calls it; probe
\* keeps the namespace of the latest call and counts the calls
ClearCache(namespace) ==
    /\ probe.clears < MaxClears
    /\ cache' = CacheClear(cache, namespace)
    /\ probe' = [namespace |-> namespace, clears |-> probe.clears + 1]
    /\ UNCHANGED <<now, level, max_rate, cache_enabled, cache_ttl, rate_limit_enabled,
                   pc, call, request_params, pag, retries, wake, result, log>>

InitClear ==
    /\ now = 0
    /\ cache = [k \in {} |-> 0]
    /\ level = [b \in Buckets |-> 0]
    /\ max_rate = Limiters(GLOBAL_RATE_LIMIT)
    /\ probe = NoClear
    /\ cache_enabled = TRUE
    /\ cache_ttl = InitialTTL(None)
    /\ rate_limit_enabled = FALSE
    /\ pc = [f \in Fetches |-> "idle"]
    /\ call = [f \in Fetches |-> NoCall]
    /\ request_params = [f \in Fetches |-> EmptyParams]
    /\ pag = [f \in Fetches |-> NoPag]
    /\ retries = [f \in Fetches |-> 0]
    /\ wake = [f \in Fetches |-> 0]
    /\ result = [f \in Fetches |-> NoResult]
    /\ log = [f \in Fetches |-> <<>>]

\* one caller fetches single pages and merged results again and again
\* while the cache is cleared
NextClear ==
    \/ \E api_path \in Paths, auto_paginate \in BOOLEAN :
            GetCall(1, api_path, SetParam(EmptyParams, "size", 1), auto_paginate, None)
    \/ PageLookup(1)
    \/ Attempt(1)
    \/ Response(1, LimiterReply)
    \/ Recall(1)
    \/ \E namespace \in ClearNamespaces : ClearCache(namespace)
    \/ Tick

SpecClear == InitClear /\ [][NextClear]_vars

(* --------------------------- merged entries --------------------------- *)

\* params of callers that differ in page, in size and in another parameter
ShareParams ==
    { EmptyParams,
      SetParam(EmptyParams, "page", 2),
      SetParam(EmptyParams, "size", 1),
      SetParam(SetParam(EmptyParams, "size", 1), "page", 2),
      SetParam(EmptyParams, "size", 2),
      SetParam(SetParam(EmptyParams, "size", 1), "sortasc", "name") }

\* NumFetches callers fetch all pages with the cache in effect
NextShare ==
    \/ \E f \in Fetches, api_path \in Paths, params \in ShareParams :
            GetCall(f, api_path, params, TRUE, None)
    \/ \E f \in Fetches : PageLookup(f)
    \/ \E f \in Fetches : Attempt(f)
    \/ \E f \in Fetches : Response(f, LimiterReply)
    \/ Tick

SpecShare == InitClear /\ [][NextShare]_vars

(* --------------------------- slow requests ---------------------------- *)

\* the client of an environment that sets GLOBAL_RATE_LIMIT to
\* SlowGlobalRate, without cache
InitSlow ==
    /\ now = 0
    /\ cache = [k \in {} |-> 0]
    /\ level = [b \in Buckets |-> 0]
    /\ max_rate = Limiters(SlowGlobalRate)
    /\ probe = NoProbe
    /\ cache_enabled = FALSE
    /\ cache_ttl = InitialTTL(Some(ShortTTL))
    /\ rate_limit_enabled = TRUE
    /\ pc = [f \in Fetches |-> "idle"]
    /\ call = [f \in Fetches |-> NoCall]
    /\ request_params = [f \in Fetches |-> EmptyParams]
    /\ pag = [f \in Fetches |-> NoPag]
    /\ retries = [f \in Fetches |-> 0]
    /\ wake = [f \in Fetches |-> 0]
    /\ result = [f \in Fetches |-> NoResult]
    /\ log = [f \in Fetches |-> <<>>]

\* the callers of NextLimiter; a response may come at any time or never
SpecSlow == InitSlow /\ [][NextLimiter]_vars

(* --------------------------- rate limit tools ------------------------- *)

\* the attributes of an AsyncLimiter of aiolimiter (its __slots__)
LimiterAttributes ==
    {"max_rate", "time_period", "_rate_per_sec", "_level", "_last_check", "_waiters"}

\* the attributes of a limiter get_rate_limit_info reads
InfoAttributes == {"max_rate", "time_period", "_tokens"}

NoInfo == [ok |-> FALSE, cls |-> "", rate_limit_enabled |-> FALSE,
           max_rate |-> [b \in Buckets |-> 0]]

\* get_rate_limit_info(): the flag and the rate of every limiter, or the
\* AttributeError of the first attribute a limiter does not have
get_rate_limit_info(enabled, rates) ==
    IF InfoAttributes \subseteq LimiterAttributes
    THEN [ok |-> TRUE, cls |-> "", rate_limit_enabled |-> enabled,
          max_rate |-> [b \in Buckets |-> rates[b]]]
    ELSE [NoInfo EXCEPT !.cls = "AttributeError"]

\* rate_limit_config that rebuilds the limiters with the rates it is given
ConfiguredRates_Applied(rates, global_rate_limit, category_rate_limit) ==
    [b \in Buckets |->
        IF b = "global" /\ global_rate_limit # None THEN Value(global_rate_limit)
        ELSE IF category_rate_limit # None /\ b \in DOMAIN Value(category_rate_limit)
        THEN Value(category_rate_limit)[b]
        ELSE rates[b]]

\* the rates of the limiters after rate_limit_config: the rates given are
\* logged only
ConfiguredRates(rates, global_rate_limit, category_rate_limit) == rates

\* RateLimitConfigInput: global_rate_limit is an optional integer above 0,
\* category_rate_limit an optional dict of category to rate
GlobalRateLimits == {None, Some(1)}
CategoryRateLimits == {None, Some([auth |-> 1])}

NoInfoCall == [op |-> "", calls |-> 0, enabled |-> None, global_rate_limit |-> None,
               category_rate_limit |-> None, info |-> NoInfo]

\* the tool rate_limit_config(params); probe keeps the arguments and what
\* the call returned or raised
RateLimitConfig(enabled, global_rate_limit, category_rate_limit) ==
    /\ probe.calls < MaxInfoCalls
    /\ rate_limit_enabled' =
            IF enabled = None THEN rate_limit_enabled ELSE Value(enabled)
    /\ max_rate' = ConfiguredRates(max_rate, global_rate_limit, category_rate_limit)
    /\ probe' = [op |-> "rate_limit_config", calls |-> probe.calls + 1,
                 enabled |-> enabled, global_rate_limit |-> global_rate_limit,
                 category_rate_limit |-> category_rate_limit,
                 info |-> get_rate_limit_info(rate_limit_enabled', max_rate')]
    /\ UNCHANGED <<now, cache, level, cache_enabled, cache_ttl, pc, call,
                   request_params, pag, retries, wake, result, log>>

\* get_rate_limit_info() called on its own
GetRateLimitInfo ==
    /\ probe.calls < MaxInfoCalls
    /\ probe' = [NoInfoCall EXCEPT !.op = "get_rate_limit_info",
                                   !.calls = probe.calls + 1,
                                   !.info = get_rate_limit_info(rate_limit_enabled, max_rate)]
    /\ UNCHANGED <<now, cache, level, max_rate, cache_enabled, cache_ttl,
                   rate_limit_enabled, pc, call, request_params, pag, retries, wake,
                   result, log>>

\* a client constructed with rate limiting off
InitRates ==
    /\ now = 0
    /\ cache = [k \in {} |-> 0]
    /\ level = [b \in Buckets |-> 0]
    /\ max_rate = Limiters(GLOBAL_RATE_LIMIT)
    /\ probe = NoInfoCall
    /\ cache_enabled = FALSE
    /\ cache_ttl = InitialTTL(None)
    /\ rate_limit_enabled = FALSE
    /\ pc = [f \in Fetches |-> "idle"]
    /\ call = [f \in Fetches |-> NoCall]
    /\ request_params = [f \in Fetches |-> EmptyParams]
    /\ pag = [f \in Fetches |-> NoPag]
    /\ retries = [f \in Fetches |-> 0]
    /\ wake = [f \in Fetches |-> 0]
    /\ result = [f \in Fetches |-> NoResult]
    /\ log = [f \in Fetches |-> <<>>]

\* one caller fetches single pages again and again while the rate limit
\* tools are called
NextRates ==
    \/ GetCall(1, AuthPath, EmptyParams, FALSE, None)
    \/ PageLookup(1)
    \/ Attempt(1)
    \/ AcquireCategory(1)
    \/ Response(1, LimiterReply)
    \/ Recall(1)
    \/ \E enabled \in OptionalBool, global_rate_limit \in GlobalRateLimits,
          category_rate_limit \in CategoryRateLimits :
            RateLimitConfig(enabled, global_rate_limit, category_rate_limit)
    \/ GetRateLimitInfo
    \/ Tick

SpecRates == InitRates /\ [][NextRates]_vars

(* --------------------------- caching off ------------------------------ *)

\* the caller whose requests are made with caching off
CacheOffFetch == 2

\* the use_cache of the requests of CacheOffFetch is False, and the cache
\* of the instance is enabled, or it is not given, and the cache of the
\* instance is disabled
InitOff ==
    /\ now = 0
    /\ cache = [k \in {} |-> 0]
    /\ level = [b \in Buckets |-> 0]
    /\ max_rate = Limiters(GLOBAL_RATE_LIMIT)
    /\ probe \in [use_cache : {None, Some(FALSE)}]
    /\ cache_enabled = (probe.use_cache # None)
    /\ cache_ttl = InitialTTL(None)
    /\ rate_limit_enabled = FALSE
    /\ pc = [f \in Fetches |-> "idle"]
    /\ call = [f \in Fetches |-> NoCall]
    /\ request_params = [f \in Fetches |-> EmptyParams]
    /\ pag = [f \in Fetches |-> NoPag]
    /\ retries = [f \in Fetches |-> 0]
    /\ wake = [f \in Fetches |-> 0]
    /\ result = [f \in Fetches |-> NoResult]
    /\ log = [f \in Fetches |-> <<>>]

\* CacheOffFetch fetches with caching off, next to callers that ask for the
\* cache
NextOff ==
    \/ \E f \in Fetches \ {CacheOffFetch}, api_path \in Paths,
          params \in ConcurrentParams, auto_paginate \in BOOLEAN :
            GetCall(f, api_path, params, auto_paginate, Some(TRUE))
    \/ \E api_path \in Paths, params \in ConcurrentParams, auto_paginate \in BOOLEAN :
            GetCall(CacheOffFetch, api_path, params, auto_paginate, probe.use_cache)
    \/ \E f \in Fetches : PageLookup(f)
    \/ \E f \in Fetches : Attempt(f)
    \/ \E f \in Fetches, reply \in ConcurrentReplies : Response(f, reply)
    \/ Tick

SpecOff == InitOff /\ [][NextOff]_vars

(* --------------------------- pages in the cache ----------------------- *)

\* the params of a caller that asks for one page of the pages of size 1
OnePageParams ==
    {SetParam(SetParam(EmptyParams, "size", 1), "page", page) : page \in 1..MaxTotal}

\* caller 1 fetches all pages and the other callers fetch single pages of
\* the same request, all with the cache
NextPages ==
    \/ \E api_path \in Paths :
            GetCall(1, api_path, SetParam(EmptyParams, "size", 1), TRUE, Some(TRUE))
    \/ \E f \in Fetches \ {1}, api_path \in Paths, params \in OnePageParams :
            GetCall(f, api_path, params, FALSE, Some(TRUE))
    \/ \E f \in Fetches : PageLookup(f)
    \/ \E f \in Fetches : Attempt(f)
    \/ \E f \in Fetches : AcquireCategory(f)
    \/ \E f \in Fetches, reply \in ConcurrentReplies : Response(f, reply)
    \/ Tick

SpecPages == Init /\ [][NextPages]_vars

(* --------------------------- retry controller ------------------------ *)

\* one caller calls get for one page; the backend answers in any way
NextRetry ==
    \/ \E api_path \in Paths, params \in CallerParams, use_cache \in OptionalBool :
            GetCall(1, api_path, params, FALSE, use_cache)
    \/ PageLookup(1)
    \/ Attempt(1)
    \/ AcquireCategory(1)
    \/ \E reply \in Replies : Response(1, reply)
    \/ Refill

\* Time passes, the event loop runs a task that can go on, and a request
\* gets its outcome: httpx is called with timeout=15.
SpecRetry ==
    /\ Init
    /\ [][NextRetry]_vars
    /\ WF_vars(Refill)
    /\ WF_vars(PageLookup(1)) /\ WF_vars(Attempt(1)) /\ WF_vars(AcquireCategory(1))
    /\ WF_vars(\E reply \in Replies : Response(1, reply))

(* ------------------------------ get_stream --------------------------- *)

\* the callers of SpecStream: one calls get, the other iterates get_stream
GetFetch == 1
StreamFetch == 2

\* a stream that lets the error of a later page out
StreamAfterFailure_Raise(res) == res

\* `except Exception: break` of get_stream: the generator ends and nothing
\* is raised
StreamAfterFailure(res) == Returned(NoDoc)

\* what get_stream does with the outcome of the get of a page, the consumer
\* taking every page it yields: yield the page, and go on to the next page,
\* end or raise
AfterStream(f, res, c, log0) ==
    LET lg == Append(log0, EvEnd(res)) IN
    IF request_params[f]["page"] = 1
    THEN IF ~res.ok
         THEN Finish(f, res, c, lg) /\ UNCHANGED probe
         ELSE /\ probe' = [probe EXCEPT !.yielded = <<res.doc>>]
              /\ IF ~res.doc.hasSR \/ ~res.doc.hasTotal
                 THEN Finish(f, Returned(NoDoc), c, lg)
                 ELSE IF request_params[f]["size"] = 0
                 THEN Finish(f, Raised("ZeroDivisionError",
                                       "integer division or modulo by zero"), c, lg)
                 ELSE IF TotalPages(res.doc.total, request_params[f]["size"]) <= 1
                 THEN Finish(f, Returned(NoDoc), c, lg)
                 ELSE NextPage(f, [NoPag EXCEPT !.total_pages =
                                        TotalPages(res.doc.total,
                                                   request_params[f]["size"])], c, lg)
    ELSE IF res.ok
         THEN /\ probe' = [probe EXCEPT !.yielded = Append(@, res.doc)]
              /\ IF request_params[f]["page"] < pag[f].total_pages
                 THEN NextPage(f, pag[f], c, lg)
                 ELSE Finish(f, Returned(NoDoc), c, lg)
         ELSE Finish(f, StreamAfterFailure(res), c, lg) /\ UNCHANGED probe

\* the first step of the generator get_stream(api_path, params, use_cache)
StreamCall(f, api_path, params, use_cache) ==
    /\ pc[f] = "idle"
    /\ call' = [call EXCEPT ![f] =
            [api_path |-> api_path, params |-> params, auto_paginate |-> FALSE,
             use_cache |-> use_cache]]
    /\ pc' = [pc EXCEPT ![f] = "lookup"]
    /\ request_params' = [request_params EXCEPT ![f] = FirstPageParams(params)]
    /\ UNCHANGED <<now, cache, level, max_rate, probe, cache_enabled, cache_ttl,
                   rate_limit_enabled, pag, retries, wake, result, log>>

\* the cache lookup of the get of a page of the stream
StreamLookup(f) ==
    LET key == _get_cache_key(Url(call[f].api_path), request_params[f])
        found == call[f].use_cache /\ CacheHas(cache, key)
        lg == Append(log[f], EvGet(request_params[f], found))
    IN  /\ pc[f] = "lookup"
        /\ IF ServedFromCache(call[f].use_cache, CacheHas(cache, key))
           THEN /\ AfterStream(f, Returned(JsonLoads(CacheGet(cache, key))), cache,
                               Append(lg, EvHit("")))
                /\ UNCHANGED retries
           ELSE /\ pc' = [pc EXCEPT ![f] = "attempt"]
                /\ retries' = [retries EXCEPT ![f] = 0]
                /\ log' = [log EXCEPT ![f] = lg]
                /\ UNCHANGED <<cache, request_params, pag, result, probe>>
        /\ UNCHANGED <<now, level, max_rate, cache_enabled, cache_ttl,
                       rate_limit_enabled, call, wake>>

\* the outcome of the request of a page of the stream
StreamResponse(f, reply) ==
    LET res == ExecuteResult(call[f].api_path, request_params[f], reply)
        key == _get_cache_key(Url(call[f].api_path), request_params[f])
        c == IF res.ok /\ call[f].use_cache
             THEN CacheSet(cache, key, JsonDumps(res.doc), cache_ttl)
             ELSE cache
        lg == Append(log[f], EvReply(reply))
    IN  /\ pc[f] = "in_flight"
        /\ IF ~res.ok /\ RetryAgain(res.cls, retries[f])
           THEN /\ wake' = [wake EXCEPT ![f] = now + BackoffTime(retries[f])]
                /\ retries' = [retries EXCEPT ![f] = @ + 1]
                /\ pc' = [pc EXCEPT ![f] = "attempt"]
                /\ log' = [log EXCEPT
                        ![f] = Append(lg, EvSleep(BackoffTime(retries[f])))]
                /\ UNCHANGED <<cache, request_params, pag, result, probe>>
           ELSE /\ AfterStream(f, res, c, lg)
                /\ UNCHANGED <<retries, wake>>
        /\ UNCHANGED <<now, level, max_rate, cache_enabled, cache_ttl,
                       rate_limit_enabled, call>>

\* the outcomes of the request of a page in which a page that is returned
\* has a SearchResult record
StreamReplies ==
    { Reply("response", 200, TRUE, sh) : sh \in {"full", "no_resources", "no_total"} }
        \cup { Reply("response", 429, TRUE, "no_search_result"),
               Reply("request_error", 0, FALSE, "no_search_result") }

\* the backend answers the request of a page in the same way whoever asks;
\* both callers name the same path and params, without cache
InitStream ==
    /\ now = 0
    /\ cache = [k \in {} |-> 0]
    /\ level = [b \in Buckets |-> 0]
    /\ max_rate = Limiters(GLOBAL_RATE_LIMIT)
    /\ probe \in [api_path : Paths, params : CallerParams \cup SizeParams,
                  backend : [1..MaxTotal -> StreamReplies], yielded : {<<>>}]
    /\ cache_enabled \in BOOLEAN
    /\ cache_ttl = InitialTTL(None)
    /\ rate_limit_enabled = FALSE
    /\ pc = [f \in Fetches |-> "idle"]
    /\ call = [f \in Fetches |-> NoCall]
    /\ request_params = [f \in Fetches |-> EmptyParams]
    /\ pag = [f \in Fetches |-> NoPag]
    /\ retries = [f \in Fetches |-> 0]
    /\ wake = [f \in Fetches |-> 0]
    /\ result = [f \in Fetches |-> NoResult]
    /\ log = [f \in Fetches |-> <<>>]

NextStream ==
    \/ GetCall(GetFetch, probe.api_path, probe.params, TRUE, Some(FALSE))
    \/ PageLookup(GetFetch)
    \/ Response(GetFetch, probe.backend[request_params[GetFetch]["page"]])
    \/ StreamCall(StreamFetch, probe.api_path, probe.params, FALSE)
    \/ StreamLookup(StreamFetch)
    \/ StreamResponse(StreamFetch, probe.backend[request_params[StreamFetch]["page"]])
    \/ \E f \in {GetFetch, StreamFetch} : Attempt(f)
    \/ Tick

SpecStream == InitStream /\ [][NextStream]_vars

(* ----------------- concurrent auto-paginated fetches ------------------ *)

\* the params of the concurrent callers: pages of one record, pages of two
\* records, and a caller that names a page
PaginatedParams ==
    { SetParam(EmptyParams, "size", 1),
      SetParam(EmptyParams, "size", 2),
      SetParam(SetParam(EmptyParams, "size", 1), "page", 2) }

\* the client after construction, with the cache on and the rate limits
\* off, before a backend that answers the request of a page in the same way
\* whoever asks
InitPaginated ==
    /\ now = 0
    /\ cache = [k \in {} |-> 0]
    /\ level = [b \in Buckets |-> 0]
    /\ max_rate = Limiters(GLOBAL_RATE_LIMIT)
    /\ probe \in [backend : [1..MaxTotal -> ConcurrentReplies]]
    /\ cache_enabled = TRUE
    /\ cache_ttl = InitialTTL(None)
    /\ rate_limit_enabled = FALSE
    /\ pc = [f \in Fetches |-> "idle"]
    /\ call = [f \in Fetches |-> NoCall]
    /\ request_params = [f \in Fetches |-> EmptyParams]
    /\ pag = [f \in Fetches |-> NoPag]
    /\ retries = [f \in Fetches |-> 0]
    /\ wake = [f \in Fetches |-> 0]
    /\ result = [f \in Fetches |-> NoResult]
    /\ log = [f \in Fetches |-> <<>>]

\* the calls interleave at every await: the cache lookups and the request
\* and the response of each page
NextPaginated ==
    \/ \E f \in Fetches, api_path \in Paths, params \in PaginatedParams :
            GetCall(f, api_path, params, TRUE, None)
    \/ \E f \in Fetches : PageLookup(f)
    \/ \E f \in Fetches : Attempt(f)
    \/ \E f \in Fetches : Response(f, probe.backend[request_params[f]["page"]])

SpecPaginated == InitPaginated /\ [][NextPaginated]_vars

TypeOK ==
    /\ now \in 0..MaxTime
    /\ cache_enabled \in BOOLEAN
    /\ rate_limit_enabled \in BOOLEAN
    /\ \A f \in Fetches : pc[f] \in {"idle", "lookup", "attempt", "acquire_category",
                                     "in_flight", "done", "cancelled"}
    /\ \A b \in Buckets : level[b] >= 0

(* --------------------------- reading the log -------------------------- *)

IsGet(e) == e.ev = "get"
IsSend(e) == e.ev = "send"
IsReply(e) == e.ev = "reply"
IsSleep(e) == e.ev = "sleep"
IsAcquire(e) == e.ev = "acquire"
IsReturned(e) == e.ev = "returned"

\* the position of the last "get" event of a log, 0 when it has none
LastGet(lg) ==
    LET at == {i \in 1..Len(lg) : IsGet(lg[i])}
    IN  IF at = {} THEN 0 ELSE CHOOSE i \in at : \A j \in at : j <= i

\* the events of the latest single-page get of fetch f
CurrentGet(f) ==
    IF LastGet(log[f]) = 0 THEN <<>>
    ELSE SubSeq(log[f], LastGet(log[f]), Len(log[f]))

\* the latest single-page get of fetch f has returned or raised
GetEnded(f) == pc[f] \in {"lookup", "done"} /\ LastGet(log[f]) > 0

\* what the backend did on one attempt, as the retry contract sees it
Label(reply) ==
    CASE reply.kind = "response" /\ reply.status = 429 -> "429"
      [] reply.kind = "response" /\ Is2xx(reply.status) /\ reply.json -> "ok"
      [] OTHER -> "fail"

Labels(lg) ==
    LET replies == SelectSeq(lg, IsReply)
    IN  [i \in 1..Len(replies) |-> Label(replies[i].reply)]

Delays(lg) ==
    LET sleeps == SelectSeq(lg, IsSleep)
    IN  [i \in 1..Len(sleeps) |-> sleeps[i].delay]

Pages(lg) == [i \in 1..Len(lg) |-> lg[i].params["page"]]

IsPrefix(s, t) == Len(s) <= Len(t) /\ SubSeq(t, 1, Len(s)) = s

Last(lg) == lg[Len(lg)]

\* the smallest n with n * size >= total
Ceil(total, size) == CHOOSE n \in 0..total : n * size >= total /\ (n - 1) * size < total

\* the size and the merged-result key of an auto-paginated call
SizeOf(f) == FirstPageParams(call[f].params)["size"]
MergedKey(f) == PaginationCacheKey(call[f].api_path, FirstPageParams(call[f].params))

\* the resources of the documents the single-page gets of a log returned,
\* in order, leaving out the events after position n
RECURSIVE ReturnedResources(_, _)
ReturnedResources(lg, n) ==
    IF n = 0 THEN <<>>
    ELSE ReturnedResources(lg, n - 1) \o
         (IF IsReturned(lg[n]) THEN GetResources(lg[n].doc) ELSE <<>>)

(* ------------------------------- claims ------------------------------- *)

\* C1: a single-page request that the backend answers with 429 three times
\* and then with a 2xx returns the body after exactly 3 retries, having
\* slept 0.5 s, 1 s and 2 s.  Over the runs of a free backend: a get that
\* has ended with the backend's answers a prefix of 429, 429, 429, ok has
\* seen all four of them, has returned, and has slept 1, 2 and 4 ticks.
C1_ThreeRetriesThenSuccess ==
    \A f \in Fetches :
        (/\ GetEnded(f)
         /\ Labels(CurrentGet(f)) # <<>>
         /\ IsPrefix(Labels(CurrentGet(f)), <<"429", "429", "429", "ok">>))
        => /\ Labels(CurrentGet(f)) = <<"429", "429", "429", "ok">>
           /\ IsReturned(Last(log[f]))
           /\ Delays(CurrentGet(f)) =
                <<MIN_BACKOFF_TIME, 2 * MIN_BACKOFF_TIME, 4 * MIN_BACKOFF_TIME>>

\* C2: a request that the backend answers with 429 on every attempt makes
\* MAX_RETRIES + 1 transport attempts and then fails with
\* RateLimitExceededError.
C2_RetriesExhausted ==
    \A f \in Fetches :
        (/\ GetEnded(f)
         /\ Labels(CurrentGet(f)) # <<>>
         /\ \A i \in 1..Len(Labels(CurrentGet(f))) : Labels(CurrentGet(f))[i] = "429")
        => /\ Len(SelectSeq(CurrentGet(f), IsSend)) = MAX_RETRIES + 1
           /\ Last(log[f]).ev = "raised"
           /\ Last(log[f]).cls = "RateLimitExceededError"

\* the outcome kind the transport contract gives a reply
ExpectedKind(reply) ==
    CASE reply.kind = "request_error" -> "NetworkError"
      [] reply.kind = "exception" -> "UnknownError"
      [] reply.status = 429 -> "RateLimited"
      [] ~Is2xx(reply.status) -> "HttpError"
      [] ~reply.json -> "UnknownError"
      [] OTHER -> "Success"

\* the outcome kind the event after a reply shows
ReportedKind(e) ==
    CASE e.ev = "returned" -> "Success"
      [] e.ev = "sleep" -> "RateLimited"
      [] e.ev = "raised" /\ e.cls = "RateLimitExceededError" -> "RateLimited"
      [] e.ev = "raised" /\ e.msg = "HTTP error occurred" -> "HttpError"
      [] e.ev = "raised" /\ e.msg = "Request error occurred" -> "NetworkError"
      [] e.ev = "raised" /\ e.msg = "An unexpected error occurred" -> "UnknownError"
      [] OTHER -> "none"

\* C3: _execute_request reports every backend outcome under its own kind:
\* 2xx as Success, 429 as RateLimited, another status as HttpError, a
\* connection failure as NetworkError, anything else as UnknownError.
C3_OutcomeKinds ==
    \A f \in Fetches : \A i \in 1..Len(log[f]) :
        IsReply(log[f][i]) =>
            /\ i < Len(log[f])
            /\ ReportedKind(log[f][i + 1]) = ExpectedKind(log[f][i].reply)

\* C4: an attempt that fails with anything but a 429 ends the single-page
\* fetch at once: the error is raised right after the reply, no backoff
\* sleep follows, and when it was the first attempt it stays the only one.
C4_NoRetryOfOtherErrors ==
    \A f \in Fetches : \A i \in 1..Len(log[f]) :
        (IsReply(log[f][i]) /\ Label(log[f][i].reply) = "fail") =>
            /\ i < Len(log[f])
            /\ log[f][i + 1].ev = "raised"
            /\ \A j \in (i + 1)..Len(log[f]) :
                    (IsSend(log[f][j]) \/ IsSleep(log[f][j]))
                        => \E k \in (i + 1)..j : IsGet(log[f][k])

C4_Witness ==
    \E f \in Fetches :
        /\ pc[f] = "done"
        /\ ~call[f].auto_paginate
        /\ Labels(log[f]) = <<"fail">>
        /\ Len(SelectSeq(log[f], IsSend)) = 1
        /\ ~result[f].ok

\* the number of tokens the calls have taken from a bucket, as logged
Acquired(bucket) ==
    LET n(f) == Cardinality({i \in 1..Len(log[f]) :
                    IsAcquire(log[f][i]) /\ log[f][i].bucket = bucket})
        sum[S \in SUBSET Fetches] ==
            IF S = {} THEN 0
            ELSE LET g == CHOOSE x \in S : TRUE IN n(g) + sum[S \ {g}]
    IN  sum[Fetches]

\* C5: a fetch answered from the cache takes no token and sends no request.
\* A call whose lookup of the merged result finds an entry consists of that
\* lookup alone; a single-page get whose lookup finds an entry returns at
\* once; and no bucket holds more tokens than the logged acquisitions, none
\* of which belongs to a get answered from the cache.
C5_CacheHitTakesNoToken ==
    /\ \A f \in Fetches : \A i \in 1..Len(log[f]) :
        /\ (log[f][i].ev = "lookup" /\ log[f][i].found) =>
                /\ Len(log[f]) = 2
                /\ log[f][2].ev = "hit"
                /\ pc[f] = "done"
                /\ result[f].ok
        /\ (IsGet(log[f][i]) /\ log[f][i].found) =>
                /\ i + 2 <= Len(log[f])
                /\ log[f][i + 1].ev = "hit"
                /\ IsReturned(log[f][i + 2])
    /\ \A b \in Buckets : level[b] <= TicksPerSecond * Acquired(b)

\* a single-page call answered from the page another call's walk cached,
\* with rate limiting on and tokens of that walk still in the bucket
C5_Witness ==
    /\ rate_limit_enabled
    /\ level["global"] > 0
    /\ \E f \in Fetches, g \in Fetches :
        /\ f # g
        /\ pc[f] = "done"
        /\ \E i \in 1..Len(log[f]) : IsGet(log[f][i]) /\ log[f][i].found
        /\ SelectSeq(log[f], IsSend) = <<>>
        /\ SelectSeq(log[f], IsAcquire) = <<>>
        /\ SelectSeq(log[g], IsSend) # <<>>

\* every reply of the call is a 2xx page with total and the resources due
AllPagesFull(f) ==
    /\ SelectSeq(log[f], IsReply) # <<>>
    /\ \A i \in 1..Len(log[f]) :
        /\ IsReply(log[f][i]) => log[f][i].reply = Reply("response", 200, TRUE, "full")
        /\ IsGet(log[f][i]) => ~log[f][i].found

\* C6: an auto-paginated fetch whose first page reports total T > size and
\* whose pages all return min(size, remaining) resources requests the pages
\* 1..ceil(T / size), each once and in order, and returns T resources.
C6_AllPagesMerged ==
    \A f \in Fetches :
        (/\ pc[f] = "done"
         /\ call[f].auto_paginate
         /\ AllPagesFull(f)
         /\ BackendTotal(call[f].api_path) > SizeOf(f))
        => LET T == BackendTotal(call[f].api_path)
               n == Ceil(T, SizeOf(f))
           IN  /\ Pages(SelectSeq(log[f], IsGet)) = [i \in 1..n |-> i]
               /\ Pages(SelectSeq(log[f], IsSend)) = [i \in 1..n |-> i]
               /\ result[f].ok
               /\ GetResources(result[f].doc) = [i \in 1..T |-> <<call[f].api_path, i>>]

C6_Witness ==
    \E f \in Fetches :
        /\ pc[f] = "done"
        /\ call[f].auto_paginate
        /\ AllPagesFull(f)
        /\ SizeOf(f) = 2
        /\ BackendTotal(call[f].api_path) = MaxTotal
        /\ Len(SelectSeq(log[f], IsSend)) >= 2
        /\ Len(GetResources(result[f].doc)) = MaxTotal

\* C7: when the pages 1..k-1 of an auto-paginated fetch succeed and the
\* fetch of page k >= 2 raises, the call raises nothing, has asked for the
\* pages 1..k and no other, and returns the resources of the pages 1..k-1
\* in page order.
C7_PartialMerge ==
    \A f \in Fetches :
        (/\ pc[f] = "done"
         /\ call[f].auto_paginate
         /\ LastGet(log[f]) > 0
         /\ Last(log[f]).ev = "raised"
         /\ log[f][LastGet(log[f])].params["page"] >= 2)
        => LET k == log[f][LastGet(log[f])].params["page"]
           IN  /\ result[f].ok
               /\ Pages(SelectSeq(log[f], IsGet)) = [i \in 1..k |-> i]
               /\ GetResources(result[f].doc) = ReturnedResources(log[f], Len(log[f]))

C7_Witness ==
    \E f \in Fetches :
        /\ pc[f] = "done"
        /\ call[f].auto_paginate
        /\ Last(log[f]).ev = "raised"
        /\ log[f][LastGet(log[f])].params["page"] = 3
        /\ result[f].ok
        /\ Len(GetResources(result[f].doc)) = 2

\* C8: the failure of a single-page fetch and the failure of page 1 of an
\* auto-paginated fetch are raised to the caller as they are, and after a
\* failure of page 1 nothing is stored under the merged-result key.
C8_ErrorsPropagate ==
    \A f \in Fetches :
        (/\ pc[f] = "done"
         /\ Labels(CurrentGet(f)) # <<>>
         /\ Last(Labels(CurrentGet(f))) # "ok"
         /\ (call[f].auto_paginate => log[f][LastGet(log[f])].params["page"] = 1))
        => /\ ~result[f].ok
           /\ Last(log[f]).ev = "raised"
           /\ result[f].cls = Last(log[f]).cls
           /\ result[f].msg = Last(log[f]).msg
           /\ result[f].cls \in {"ToolError", "RateLimitExceededError"}
           /\ call[f].auto_paginate => MergedKey(f) \notin DOMAIN cache

C8_Witness ==
    \E f \in Fetches :
        /\ pc[f] = "done"
        /\ call[f].auto_paginate
        /\ call[f].use_cache
        /\ Labels(log[f]) = <<"fail">>
        /\ ~result[f].ok
        /\ MergedKey(f) \notin DOMAIN cache

\* fetch f ends a walk over more than one page in this step
MergeStep(f) ==
    /\ pc[f] # "done"
    /\ pc'[f] = "done"
    /\ call[f].auto_paginate
    /\ call[f].use_cache
    /\ Len(SelectSeq(log'[f], IsGet)) >= 2

\* fetch f is called with auto_paginate and caching in this step
CachedCallStep(f) ==
    /\ pc[f] = "idle"
    /\ pc'[f] # "idle"
    /\ call'[f].auto_paginate
    /\ call'[f].use_cache

\* C9: with caching on, the end of a multi-page merge, complete or partial,
\* stores the merged document under the 'paginated:' key with the
\* configured TTL; an identical call made while the entry is there returns
\* that document without a backend request, a call made when it is gone
\* walks the pages; and no entry stays beyond its TTL.
C9_MergedResultCached ==
    /\ [][\A f \in Fetches :
            /\ MergeStep(f) =>
                /\ MergedKey(f) \in DOMAIN cache'
                /\ cache'[MergedKey(f)] =
                      [value |-> JsonDumps(result'[f].doc),
                       expires |-> now + cache_ttl * TicksPerSecond,
                       timer |-> TRUE]
            /\ CachedCallStep(f) =>
                LET key == PaginationCacheKey(call'[f].api_path,
                                              FirstPageParams(call'[f].params))
                IN  IF key \in DOMAIN cache
                    THEN /\ pc'[f] = "done"
                         /\ result'[f] = Returned(JsonLoads(cache[key].value))
                         /\ SelectSeq(log'[f], IsSend) = <<>>
                    ELSE /\ pc'[f] = "lookup"
                         /\ log'[f] = <<EvLookup(FALSE)>>]_vars
    /\ [](\A k \in DOMAIN cache :
            /\ cache[k].expires > now
            /\ cache[k].expires <= now + cache_ttl * TicksPerSecond)

\* a call answered with the partial merge another call left in the cache
C9_Witness ==
    \E f \in Fetches, g \in Fetches :
        /\ f # g
        /\ pc[f] = "done" /\ pc[g] = "done"
        /\ call[f].auto_paginate
        /\ Last(log[f]).ev = "raised"
        /\ Len(SelectSeq(log[f], IsGet)) >= 2
        /\ log[g] = <<EvLookup(TRUE), EvHit("paginated:")>>
        /\ call[g].api_path = call[f].api_path
        /\ result[g] = result[f]
        /\ Len(GetResources(result[g].doc)) < BackendTotal(call[g].api_path)

\* the document the first single-page get of a log returned
FirstReturned(lg) ==
    LET at == {i \in 1..Len(lg) : IsReturned(lg[i])}
    IN  lg[CHOOSE i \in at : \A j \in at : i <= j].doc

\* C10: when page 1 lacks the SearchResult/total shape, or needs no second
\* page, _get_all_pages sends one request, returns the document of page 1
\* as it is and stores nothing under the 'paginated:' key.
C10_SinglePageVerbatim ==
    \A f \in Fetches :
        (/\ pc[f] = "done"
         /\ call[f].auto_paginate
         /\ SelectSeq(log[f], IsReturned) # <<>>
         /\ LET d == FirstReturned(log[f])
            IN  \/ ~d.hasSR
                \/ ~d.hasTotal
                \/ Ceil(d.total, SizeOf(f)) <= 1)
        => /\ Len(SelectSeq(log[f], IsGet)) = 1
           /\ Len(SelectSeq(log[f], IsSend)) = 1
           /\ result[f] = Returned(FirstReturned(log[f]))
           /\ MergedKey(f) \notin DOMAIN cache

C10_Witness ==
    \E f \in Fetches :
        /\ pc[f] = "done"
        /\ call[f].auto_paginate
        /\ call[f].use_cache
        /\ SelectSeq(log[f], IsReturned) # <<>>
        /\ FirstReturned(log[f]).hasTotal
        /\ FirstReturned(log[f]).total = SizeOf(f)
        /\ result[f] = Returned(FirstReturned(log[f]))

(* ------------------------------ C11 ----------------------------------- *)

\* the single-page get of fetch f is answered from the cache in this step
PageHitStep(f) ==
    /\ pc[f] = "lookup"
    /\ log'[f] # log[f]
    /\ Last(log'[f]).ev # "cancelled"
    /\ ServedFromCache(call[f].use_cache,
            CacheHas(cache, _get_cache_key(Url(call[f].api_path), request_params[f])))

\* the body of a reply of fetch f is stored in the cache in this step
PageSetStep(f) ==
    /\ pc[f] = "in_flight"
    /\ pc'[f] # "cancelled"
    /\ call[f].use_cache
    /\ result'[f].ok

\* C11: an entry is never returned past its TTL, whatever TTL cache_config
\* installed: a get that is answered from the cache finds an entry whose
\* ttl is not over yet, and an entry that was just set is the one a get at
\* once returns.
C11_NeverPastTTL ==
    [][\A f \in Fetches :
        LET key == _get_cache_key(Url(call[f].api_path), request_params[f])
        IN  /\ PageHitStep(f) => now <= cache[key].expires
            /\ PageSetStep(f) =>
                    /\ CacheHas(cache', key)
                    /\ JsonLoads(CacheGet(cache', key)) = result'[f].doc]_vars

(* ------------------------------ C12 ----------------------------------- *)

\* the key/value pairs of params, none for None
ItemsOf(params) ==
    IF params = None THEN {} ELSE {Value(params)[i] : i \in 1..Len(Value(params))}

\* C12: _get_cache_key does not depend on the insertion order: for one URL,
\* two values of params with the same key/value pairs give the same key,
\* and so do None and the empty dict.
C12_OrderIndependent ==
    (probe.keys # <<>> /\ ItemsOf(probe.params[1]) = ItemsOf(probe.params[2]))
    => probe.keys[1] = probe.keys[2]

C12_Witness ==
    /\ probe.keys # <<>>
    /\ probe.params[1] # None
    /\ probe.params[2] # None
    /\ Len(Value(probe.params[1])) = 2
    /\ Value(probe.params[1]) # Value(probe.params[2])
    /\ ItemsOf(probe.params[1]) = ItemsOf(probe.params[2])
    /\ probe.keys[1] = probe.keys[2]

(* ------------------------------ C13 ----------------------------------- *)

\* C13: with rate limiting enabled every request handed to the transport,
\* by get itself or for a page of _get_all_pages, comes right after a token
\* of the bucket of its category was taken, and that right after a token of
\* the global bucket was taken; no token of a category bucket is taken
\* without the global token of the same attempt before it.
C13_GlobalThenCategory ==
    \A f \in Fetches : \A i \in 1..Len(log[f]) :
        /\ (IsSend(log[f][i]) /\ rate_limit_enabled)
            => /\ i > 2
               /\ log[f][i - 1] = EvAcquire(get_endpoint_category(call[f].api_path))
               /\ log[f][i - 2] = EvAcquire("global")
        /\ (IsAcquire(log[f][i]) /\ log[f][i].bucket \in Categories)
            => /\ i > 1
               /\ log[f][i - 1] = EvAcquire("global")

C13_Witness ==
    \E f \in Fetches :
        /\ rate_limit_enabled
        /\ call[f].auto_paginate
        /\ Len(SelectSeq(log[f], IsSend)) = 2
        /\ IsSend(Last(log[f]))
        /\ log[f][Len(log[f]) - 1] = EvAcquire(get_endpoint_category(call[f].api_path))
        /\ log[f][Len(log[f]) - 2] = EvAcquire("global")

(* ------------------------------ C14 ----------------------------------- *)

\* fetch f has taken the global token of an attempt and is suspended in the
\* acquire of its category limiter, which has no capacity
WaitsForCategory(f) ==
    /\ pc[f] = "acquire_category"
    /\ ~HasCapacity(CategoryLimiter(call[f].api_path))

\* C14: the tokens of the global and of the category bucket are taken
\* together: no request has taken its global token while it still waits
\* for a token of its category bucket.
C14_AtomicAcquire == \A f \in Fetches : ~WaitsForCategory(f)

(* ------------------------------ C15 ----------------------------------- *)

\* the fetches that hold a global token while suspended for a device token
DeviceWaiters ==
    {g \in Fetches : WaitsForCategory(g) /\ CategoryLimiter(call[g].api_path) = "device"}

\* fetch f is an auth request at the head of an attempt whose own bucket
\* has a spare token and which the global bucket keeps waiting
AuthHeldUp(f) ==
    /\ pc[f] = "attempt"
    /\ now >= wake[f]
    /\ UseLimiters
    /\ CategoryLimiter(call[f].api_path) = "auth"
    /\ HasCapacity("auth")
    /\ ~HasCapacity("global")

\* C15: requests that wait for a device token take nothing an auth request
\* needs: an auth request whose own bucket has a spare token and that
\* still has to wait would wait as well if the waiting device requests had
\* taken no token at all.
C15_WaitersDoNotBlockOthers ==
    \A f \in Fetches :
        AuthHeldUp(f) =>
            level["global"] - TicksPerSecond * Cardinality(DeviceWaiters) + TicksPerSecond
                > MaxRate("global") * TicksPerSecond

(* ------------------------------ C16 ----------------------------------- *)

\* the tokens left in a bucket, in 1/TicksPerSecond tokens
Tokens(bucket) == MaxRate(bucket) * TicksPerSecond - level[bucket]

C17_AdmissionTakesNMinusOneOverR ==
    \A b \in Buckets :
        Acquired(b) > MaxRate(b)
            => now * MaxRate(b) >= (Acquired(b) - 1) * TicksPerSecond

(* ------------------------------ C18 ----------------------------------- *)

C19_CancelGivesTokenBack ==
    [][\A f \in Fetches :
        (WaitsForCategory(f) /\ pc'[f] = "cancelled" /\ level["global"] > 0)
            => level'["global"] < level["global"]]_vars

(* ------------------------------ C20 ----------------------------------- *)

C21_SizeClamped ==
    \A f \in Fetches : \A i \in 1..Len(log[f]) :
        (IsSend(log[f][i]) /\ call[f].auto_paginate)
            => /\ log[f][i].params["page"] >= 1
               /\ log[f][i].params["size"] >= 1
               /\ log[f][i].params["size"] <= MAX_PAGE_SIZE

(* ------------------------------ C22 ----------------------------------- *)

\* the entries of ENDPOINT_CATEGORIES whose pattern occurs in path
Matching(path) ==
    {i \in 1..Len(ENDPOINT_CATEGORIES) : Contains(path, ENDPOINT_CATEGORIES[i].pattern)}

\* C22: get_endpoint_category returns the category of the first entry of
\* ENDPOINT_CATEGORIES whose pattern occurs in the path and "default" when
\* none occurs; it is always one of the categories that have a bucket; and
\* /ers/config/networkdevice is of category device.
C22_FirstMatchingCategory ==
    /\ probe.category # "" =>
        /\ probe.category \in Categories
        /\ IF Matching(probe.path) = {} THEN probe.category = "default"
           ELSE \E i \in Matching(probe.path) :
                    /\ \A j \in Matching(probe.path) : i <= j
                    /\ probe.category = ENDPOINT_CATEGORIES[i].category
    /\ get_endpoint_category(DevicePath) = "device"
    /\ CategoryLimiter(DevicePath) = "device"

\* a path with the patterns of two categories in it, the one that is
\* later in the list first in the path
C22_Witness ==
    /\ probe.category = "device"
    /\ probe.path = <<"/api/v1/policy", Conf, "networkdevice">>
    /\ \E i, j \in Matching(probe.path) :
            /\ ENDPOINT_CATEGORIES[i].category = "device"
            /\ ENDPOINT_CATEGORIES[j].category = "policy"

(* ------------------------------ C23 ----------------------------------- *)

\* the keys of query_params that are neither control flags nor pagination
\* controls nor the filter
ForwardedKeys(query_params) ==
    DOMAIN query_params \ {"auto_paginate", "use_cache", "size", "page", "filter"}

\* C23: of the input of a tool call the backend never receives the keys
\* auto_paginate and use_cache, receives every key that is not a control
\* with the value the caller gave it, and receives a filter_expression
\* that is present as its filter parameter.
C23_ToolParameters ==
    \A f \in Fetches : \A i \in 1..Len(log[f]) :
        IsSend(log[f][i]) =>
            LET sent == log[f][i].params
                query_params == IF probe.query_params # None
                                THEN Value(probe.query_params) ELSE EmptyParams
            IN  /\ ~HasKey(sent, "auto_paginate")
                /\ ~HasKey(sent, "use_cache")
                /\ \A k \in ForwardedKeys(query_params) :
                        HasKey(sent, k) /\ sent[k] = query_params[k]
                /\ HasKey(query_params, "size") => sent["size"] = query_params["size"]
                /\ probe.filter_expression # None =>
                        /\ HasKey(sent, "filter")
                        /\ sent["filter"] = Value(probe.filter_expression)


(* ------------------------------- C24 ---------------------------------- *)

\* the entries created under a namespace: every entry is created by the
\* cache of the constructor, under its namespace
CreatedUnder(key, namespace) == namespace = CACHE_NAMESPACE

ClearStep == probe'.clears # probe.clears

\* C24: a call of clear_cache without a namespace leaves the cache empty, so
\* that the next fetch of a request that was cached goes to the backend; a
\* call with a namespace removes the entries created under that namespace
\* and leaves every other entry as it was.
C24_ClearCache ==
    [][ClearStep =>
        IF probe'.namespace = None
        THEN DOMAIN cache' = {}
        ELSE \A k \in DOMAIN cache :
                IF CreatedUnder(k, Value(probe'.namespace))
                THEN k \notin DOMAIN cache'
                ELSE k \in DOMAIN cache' /\ cache'[k] = cache[k]]_vars


(* ------------------------------- C25 ---------------------------------- *)

\* the entry has a Name and a URL, neither of them empty
HasNameAndUrl(entry) ==
    /\ entry.Name # None /\ Value(entry.Name) # <<>>
    /\ entry.URL # None /\ Value(entry.URL) # ""

\* the tool information is that of the entry
ToolOfEntry(tool, entry) ==
    /\ Len(tool.name) = Len(Value(entry.Name))
    /\ \A i \in DOMAIN tool.name :
            tool.name[i] = CASE Value(entry.Name)[i] = " " -> "_"
                             [] Value(entry.Name)[i] = "T" -> "t"
                             [] OTHER -> Value(entry.Name)[i]
    /\ tool.supports_filtering =
            (entry.FilterableFields \notin {None, Some(<<>>)})
    /\ tool.filterable_fields =
            (IF entry.FilterableFields = None THEN <<>>
             ELSE Value(entry.FilterableFields))

\* the positions of the entries that have a Name and a URL
ValidEntries == {i \in DOMAIN probe.entries : HasNameAndUrl(probe.entries[i])}

\* C25: create_tool_from_url_entry returns None exactly for the entries
\* with a missing or empty Name or URL, and otherwise a tool named by the
\* Name in lower case with underscores for spaces, supports_filtering true
\* exactly when FilterableFields is not empty, and filterable_fields the
\* list of the entry; create_tools_from_url_entries returns the tools of
\* the other entries, in their order.
C25_ToolsOfEntries ==
    /\ \A i \in DOMAIN probe.entries :
        LET entry == probe.entries[i]
            tool_info == create_tool_from_url_entry(entry)
        IN  IF HasNameAndUrl(entry)
            THEN tool_info # None /\ ToolOfEntry(Value(tool_info), entry)
            ELSE tool_info = None
    /\ probe.created =>
        /\ Len(probe.tools) = Cardinality(ValidEntries)
        /\ \A i \in ValidEntries :
              ToolOfEntry(probe.tools[Cardinality({j \in ValidEntries : j <= i})],
                          probe.entries[i])

C25_Witness ==
    /\ probe.created
    /\ Len(probe.entries) = 2
    /\ probe.entries[1].URL = None
    /\ probe.entries[2] = [Name |-> Some(<<"T", " ">>), URL |-> Some("/test/endpoint"),
                           FilterableFields |-> Some(<<"name", "description">>)]
    /\ Len(probe.tools) = 1
    /\ probe.tools[1].name = <<"t", "_">>
    /\ probe.tools[1].supports_filtering


(* ------------------------------- C26 ---------------------------------- *)

\* the positions of the events of one kind in the history of fetch f
Positions(f, kind) == {i \in DOMAIN log[f] : log[f][i].ev = kind}

SinglePageKey(f) == _get_cache_key(Url(call[f].api_path), request_params[f])

\* fetch f, a fetch of one page with the cache in effect, leaves the lookup
\* of its single-page key
SingleLookupStep(f) ==
    /\ pc[f] = "lookup" /\ pc'[f] # "lookup"
    /\ ~call[f].auto_paginate /\ call[f].use_cache

\* fetch f, a fetch of one page with the cache in effect, gets a successful
\* response
SingleResponseStep(f) ==
    /\ pc[f] = "in_flight" /\ pc'[f] = "done"
    /\ ~call[f].auto_paginate /\ call[f].use_cache
    /\ result'[f].ok

Kinds(events) == {events[i].ev : i \in DOMAIN events}

\* fetch f, of one page with the cache in effect, has returned a document
\* it got from the backend
FetchedOnePage(f) ==
    /\ pc[f] = "done" /\ result[f].ok
    /\ ~call[f].auto_paginate /\ call[f].use_cache
    /\ "send" \in Kinds(log[f])

\* no fetch but g has sent a request whose response is written under key
OnlyWriter(g, key) ==
    \A h \in Fetches \ {g} :
        \A i \in Positions(h, "send") :
            _get_cache_key(Url(call[h].api_path), log[h][i].params) # key

\* C26: a fetch of one page with the cache in effect looks its single-page
\* key up first; on a miss it goes on to the attempts, which take the global
\* bucket and the bucket of the category of the path before the request is
\* sent; a successful response is written under that key with the TTL, and
\* the entry stays until the TTL is over; on a hit the fetch returns the
\* cached document with no request sent, so that an identical fetch that
\* starts after the first has returned and finds the entry returns an equal
\* document (the first being the only fetch that requested the page).
C26_SinglePageCached ==
    [][/\ \A f \in Fetches : SingleLookupStep(f) =>
            IF CacheHas(cache, SinglePageKey(f))
            THEN /\ pc'[f] = "done"
                 /\ result'[f] = Returned(JsonLoads(CacheGet(cache, SinglePageKey(f))))
                 /\ Kinds(log'[f]) \cap {"acquire", "send", "reply"} = {}
                 /\ \A g \in Fetches :
                        FetchedOnePage(g) /\ call[g] = call[f]
                            /\ OnlyWriter(g, SinglePageKey(f)) =>
                                result'[f] = result[g]
            ELSE /\ pc'[f] = "attempt"
                 /\ Kinds(log'[f]) = {"get"}
       /\ \A f \in Fetches : SingleResponseStep(f) =>
            /\ CacheHas(cache', SinglePageKey(f))
            /\ JsonLoads(CacheGet(cache', SinglePageKey(f))) = result'[f].doc
            /\ cache'[SinglePageKey(f)].expires = now + cache_ttl * TicksPerSecond
            /\ log[f][1].ev = "get"
            /\ rate_limit_enabled =>
                 <<"global", get_endpoint_category(call[f].api_path)>> =
                    [i \in 1..2 |-> log[f][i + 1].bucket]
       /\ \A k \in DOMAIN cache :
            now' < cache[k].expires => CacheHas(cache', k)]_vars

\* the second of two identical fetches of one page is served from the entry
\* the first has written
C26_Witness ==
    /\ FetchedOnePage(1)
    /\ pc[2] = "done" /\ call[2] = call[1]
    /\ Kinds(log[2]) = {"get", "hit", "returned"}
    /\ result[2] = result[1]
    /\ now > 0


(* ------------------------------- C27 ---------------------------------- *)

\* the page whose single-page get ends at position i of the history of f:
\* the page of the latest get before i
PageEnded(f, i) ==
    LET gets == {j \in Positions(f, "get") : j < i}
    IN  log[f][CHOOSE j \in gets : \A k \in gets : k <= j].params["page"]

\* C27: the page requests of one auto-paginated fetch are sequential: a
\* request is sent only after every earlier request of the fetch has got
\* its reply, so at most one is in flight; the request of page N+1 is sent
\* only after the get of page N has ended, returned or raised, and no
\* request of a page from 2 on is sent before the get of page 1 has ended.
C27_PagesSequential ==
    \A f \in Fetches : call[f].auto_paginate =>
        /\ \A i, j \in Positions(f, "send") : i < j =>
                \E k \in Positions(f, "reply") : i < k /\ k < j
        /\ Cardinality(Positions(f, "send")) - Cardinality(Positions(f, "reply"))
                = IF pc[f] = "in_flight" THEN 1 ELSE 0
        /\ \A j \in Positions(f, "send") :
                \A page \in 1..(log[f][j].params["page"] - 1) :
                    \E k \in Positions(f, "returned") \cup Positions(f, "raised") :
                        k < j /\ PageEnded(f, k) = page

\* three pages were requested one after the other
C27_Witness ==
    /\ call[1].auto_paginate
    /\ pc[1] = "in_flight"
    /\ request_params[1]["page"] = 3
    /\ Cardinality(Positions(1, "send")) = 3


(* ------------------------------- C28 ---------------------------------- *)

\* key is the key of the merged entry of a fetch of api_path with params:
\* "paginated:", the url, and the params without page, with size
\* MAX_PAGE_SIZE when the caller gave none
MergedEntryOf(key, api_path, params) ==
    /\ key[1] = "paginated:"
    /\ key[2] = Url(api_path)
    /\ DOMAIN key[3] = (DOMAIN params \ {"page"}) \cup {"size"}
    /\ \A name \in DOMAIN key[3] :
            key[3][name] = IF name \in DOMAIN params THEN params[name]
                           ELSE MAX_PAGE_SIZE

\* C28: an auto-paginated fetch with the cache in effect is served from a
\* merged entry exactly when the cache holds the entry of its url and of its
\* params without page (size being 100 when not given), and a merge writes
\* that entry; so fetches that differ only in page share an entry, and
\* fetches that differ in the endpoint or another parameter, size included,
\* do not.
C28_MergedEntryKey ==
    [][\A f \in Fetches :
        /\ (pc[f] = "idle" /\ pc'[f] # "idle" /\ call'[f].auto_paginate
                /\ call'[f].use_cache) =>
              /\ pc'[f] = "done" <=>
                    \E k \in DOMAIN cache :
                        MergedEntryOf(k, call'[f].api_path, call'[f].params)
              /\ pc'[f] = "done" =>
                    \E k \in DOMAIN cache :
                        /\ MergedEntryOf(k, call'[f].api_path, call'[f].params)
                        /\ result'[f] = Returned(JsonLoads(CacheGet(cache, k)))
        /\ (pc[f] \in {"lookup", "in_flight"} /\ pc'[f] = "done"
                /\ call[f].auto_paginate /\ call[f].use_cache
                /\ request_params[f]["page"] >= 2) =>
              \E k \in DOMAIN cache' :
                  /\ MergedEntryOf(k, call[f].api_path, call[f].params)
                  /\ result'[f] = Returned(JsonLoads(CacheGet(cache', k)))]_vars

\* a fetch is served from the merged entry of a fetch that differs from it
\* in page only, while the entries of other sizes are not used
C28_Witness ==
    /\ call[1].api_path = call[2].api_path
    /\ call[1].params = SetParam(EmptyParams, "size", 1)
    /\ call[2].params = SetParam(SetParam(EmptyParams, "size", 1), "page", 2)
    /\ "send" \in Kinds(log[1]) /\ pc[1] = "done"
    /\ log[2] = <<EvLookup(TRUE), EvHit("paginated:")>>
    /\ result[2] = result[1]


(* ------------------------------- C29 ---------------------------------- *)

\* the positions of the history of fetch f where a token of a bucket was
\* taken
TokensTaken(f, bucket) ==
    {i \in Positions(f, "acquire") : log[f][i].bucket = bucket}

InFlight == {f \in Fetches : pc[f] = "in_flight"}

\* C30: a request is sent only after its tokens were taken, and nothing of
\* a limiter is held while it is in flight: the end of a request gives
\* nothing back to a bucket, and a fetch that is due for its global token
\* can take it whenever the level of the bucket leaves room, whatever
\* requests are in flight; so requests in flight are not bounded by the
\* size of a bucket.
C30_NothingHeldInFlight ==
    [][/\ \A f \in Fetches : pc[f] # "in_flight" /\ pc'[f] = "in_flight" =>
            /\ log'[f][Len(log'[f])].ev = "send"
            /\ log'[f][Len(log'[f]) - 1].ev = "acquire"
            /\ log'[f][Len(log'[f]) - 2].ev = "acquire"
       /\ \A f \in Fetches : pc[f] = "in_flight" /\ pc'[f] # "in_flight" =>
            level' = level
       /\ \A f \in Fetches :
            (/\ pc[f] = "attempt" /\ now >= wake[f]
             /\ level["global"] + TicksPerSecond <= max_rate["global"] * TicksPerSecond)
                => ENABLED Attempt(f)
       /\ \A f \in Fetches :
            (/\ pc[f] = "acquire_category"
             /\ level[get_endpoint_category(call[f].api_path)] + TicksPerSecond
                    <= max_rate[get_endpoint_category(call[f].api_path)] * TicksPerSecond)
                => ENABLED AcquireCategory(f)]_vars

\* more requests are in flight than the global bucket holds, the later one
\* having taken its tokens while the earlier one was in flight
C30_Witness ==
    /\ Cardinality(InFlight) > max_rate["global"]
    /\ \A f \in Fetches : level[get_endpoint_category(call[f].api_path)] > 0
    /\ now > 0


(* ------------------------------- C31 ---------------------------------- *)

RateLimitConfigStep ==
    probe'.calls # probe.calls /\ probe'.op = "rate_limit_config"

\* C31: rate_limit_config sets rate_limit_enabled to the value it is given
\* in the same call and leaves the max rate of the global limiter and of
\* every category limiter as it was, whatever rates it is given; the rates
\* stay those of the construction, and the level of a bucket never passes
\* the rate of the construction.
C31_RatesOnlyAccepted ==
    [][/\ RateLimitConfigStep =>
            /\ rate_limit_enabled' =
                    (IF probe'.enabled = None THEN rate_limit_enabled
                     ELSE Value(probe'.enabled))
            /\ \A b \in Buckets : max_rate'[b] = max_rate[b]
       /\ \A b \in Buckets :
            /\ max_rate'[b] = Limiters(GLOBAL_RATE_LIMIT)[b]
            /\ level'[b] > level[b] =>
                    level'[b] <= Limiters(GLOBAL_RATE_LIMIT)[b] * TicksPerSecond]_vars

\* after the one call that enabled the limiter and gave the rates 1, two
\* requests of the auth category were admitted in the same tick
C31_Witness ==
    /\ probe.op = "rate_limit_config" /\ probe.calls = 1
    /\ probe.enabled = Some(TRUE)
    /\ probe.global_rate_limit = Some(1)
    /\ probe.category_rate_limit # None
    /\ rate_limit_enabled
    /\ level["global"] = 2 * TicksPerSecond
    /\ level["auth"] = 2 * TicksPerSecond


(* ------------------------------- C32 ---------------------------------- *)

\* C32: get_rate_limit_info, called on its own or at the end of
\* rate_limit_config, raises nothing and returns rate_limit_enabled and the
\* max rate of the global limiter and of every category limiter.
C32_InfoReturned ==
    probe.calls > 0 =>
        /\ probe.info.ok
        /\ probe.info.rate_limit_enabled = rate_limit_enabled
        /\ \A b \in Buckets : probe.info.max_rate[b] = max_rate[b]


(* ------------------------------- C33 ---------------------------------- *)

\* fetch f takes a step
StepOf(f) == pc'[f] # pc[f] \/ log'[f] # log[f]

\* C33: the fetch for which caching is off (use_cache False, or not given
\* while cache_enabled is false) finds nothing in the cache and writes
\* nothing to it, for the merged entry and for every page: each of its
\* steps leaves the cache as it is, none of its lookups finds an entry, it
\* is never served from the cache, and every single-page get it made was
\* sent to the backend.
C33_CacheOffNoReadNoWrite ==
    [][(StepOf(CacheOffFetch) /\ pc'[CacheOffFetch] # "idle") =>
            /\ cache' = cache
            /\ \A i \in DOMAIN log'[CacheOffFetch] :
                    /\ log'[CacheOffFetch][i].ev # "hit"
                    /\ ~log'[CacheOffFetch][i].found
            /\ pc'[CacheOffFetch] = "done" =>
                    /\ "send" \in Kinds(log'[CacheOffFetch])
                    /\ Cardinality({i \in DOMAIN log'[CacheOffFetch] :
                                        log'[CacheOffFetch][i].ev = "get"})
                        = Cardinality({i \in DOMAIN log'[CacheOffFetch] :
                                        log'[CacheOffFetch][i].ev = "send"})]_vars

\* the fetch without cache got all pages from the backend while the cache
\* held the merged entry and the pages of the same request
C33_Witness ==
    /\ pc[CacheOffFetch] = "done" /\ result[CacheOffFetch].ok
    /\ call[CacheOffFetch].auto_paginate
    /\ Cardinality(Positions(CacheOffFetch, "send")) >= 2
    /\ pc[1] = "done" /\ result[1] = result[CacheOffFetch]
    /\ call[1] = [call[CacheOffFetch] EXCEPT !.use_cache = TRUE]
    /\ Cardinality(DOMAIN cache) >= 3


(* ------------------------------- C34 ---------------------------------- *)

\* fetch f, auto-paginated with the cache, gets the successful response of
\* a page
PageResponseStep(f) ==
    /\ pc[f] = "in_flight" /\ pc'[f] # "in_flight"
    /\ call[f].auto_paginate /\ call[f].use_cache
    /\ log'[f][Len(log[f]) + 2].ev = "returned"

\* C34: every page an auto-paginated fetch with the cache gets successfully
\* is stored under the single-page key of the url and of the params with
\* that page and size, with the TTL, whether or not the merge is reached,
\* and stays there until the TTL is over; a fetch of one page that finds
\* the entry of its page returns the document of the page with no request
\* sent.
C34_PagesCachedOneByOne ==
    [][/\ \A f \in Fetches : PageResponseStep(f) =>
            LET key == <<"", Url(call[f].api_path), request_params[f]>> IN
            /\ {"page", "size"} \subseteq DOMAIN request_params[f]
            /\ CacheHas(cache', key)
            /\ JsonLoads(CacheGet(cache', key)) = log'[f][Len(log[f]) + 2].doc
            /\ cache'[key].expires = now + cache_ttl * TicksPerSecond
       /\ \A k \in DOMAIN cache : now' < cache[k].expires => CacheHas(cache', k)
       /\ \A g \in Fetches :
            (/\ pc[g] = "lookup" /\ pc'[g] # "lookup"
             /\ ~call[g].auto_paginate /\ call[g].use_cache
             /\ CacheHas(cache, <<"", Url(call[g].api_path), call[g].params>>)) =>
                /\ pc'[g] = "done"
                /\ result'[g] = Returned(JsonLoads(CacheGet(cache,
                                    <<"", Url(call[g].api_path), call[g].params>>)))
                /\ Kinds(log'[g]) \cap {"acquire", "send", "reply"} = {}]_vars

\* page 2 is served from the cache to a fetch of one page while the
\* auto-paginated fetch that got it has not merged: it waits for page 3 and
\* no merged entry exists
C34_Witness ==
    /\ call[1].auto_paginate /\ pc[1] = "in_flight" /\ request_params[1]["page"] = 3
    /\ call[2].api_path = call[1].api_path
    /\ call[2].params = SetParam(SetParam(EmptyParams, "size", 1), "page", 2)
    /\ pc[2] = "done" /\ Kinds(log[2]) = {"get", "hit", "returned"}
    /\ result[2].doc.resources = <<<<call[1].api_path, 2>>>>
    /\ \A k \in DOMAIN cache : k[1] # "paginated:"


(* ------------------------------- C35 ---------------------------------- *)

\* the call of get of fetch f has reached the retry controller
InController(f) == "send" \in Kinds(log[f]) \/ pc[f] \in {"attempt", "acquire_category"}

\* the attempts, the sleeps and the counter of the call are within their
\* bounds, and a call that has ended has returned the body of a response or
\* has raised
ControllerBounds(f) ==
    /\ Cardinality(Positions(f, "send")) <= MAX_RETRIES + 1
    /\ Cardinality(Positions(f, "sleep")) <= MAX_RETRIES
    /\ retries[f] \in 0..MAX_RETRIES
    /\ (pc[f] = "done" /\ InController(f)) =>
        LET end == log[f][Len(log[f])]
            reply == log[f][Len(log[f]) - 1].reply
        IN  /\ end.ev \in {"returned", "raised"}
            /\ end.ev = "returned" <=> result[f].ok
            /\ end.ev = "returned" =>
                    /\ reply.kind = "response" /\ Is2xx(reply.status) /\ reply.json
                    /\ result[f].doc =
                        BackendDoc(call[f].api_path, request_params[f], reply.shape)
            /\ end.ev = "raised" => result[f].cls # ""

\* C35: every call of the retry controller ends, by returning the body of
\* a response or by raising, after at most MAX_RETRIES + 1 transport
\* attempts and MAX_RETRIES sleeps, its counter staying within
\* 0..MAX_RETRIES.
C35_ControllerTerminates ==
    /\ [](\A f \in Fetches : ControllerBounds(f))
    /\ (pc[1] = "attempt") ~> (pc[1] = "done")

\* a call has ended by raising after the backend answered 429
C35_Witness ==
    /\ pc[1] = "done" /\ ~result[1].ok
    /\ Cardinality(Positions(1, "send")) >= 1
    /\ log[1][Len(log[1]) - 1].reply.status = 429
    /\ log[1][Len(log[1])].ev = "raised"


(* ------------------------------- C36 ---------------------------------- *)

\* the page numbers fetch f has requested, in order
RECURSIVE PagesOf(_)
PagesOf(events) ==
    IF events = <<>> THEN <<>>
    ELSE IF Head(events).ev = "send"
         THEN <<Head(events).params["page"]>> \o PagesOf(Tail(events))
         ELSE PagesOf(Tail(events))

RECURSIVE Concat(_)
Concat(docs) ==
    IF docs = <<>> THEN <<>> ELSE GetResources(Head(docs)) \o Concat(Tail(docs))

\* the request of the page got a response that is returned
PageOk(page) ==
    LET reply == probe.backend[page]
    IN  reply.kind = "response" /\ Is2xx(reply.status) /\ reply.json

\* C36: without cache and with the same backend behaviour, in which every
\* page that is returned has a SearchResult record, get_stream and the
\* auto-paginating get request the same pages in the same order; the
\* stream yields the pages it got in the order 1, 2, ..., ends without
\* raising at the first failing page from 2 on, and raises for page 1 as
\* get does; and the resources of the pages it yielded, one after the
\* other, are the resources of the document get returns.
C36_StreamEquivalentToGet ==
    (pc[GetFetch] = "done" /\ pc[StreamFetch] = "done") =>
        /\ PagesOf(log[StreamFetch]) = PagesOf(log[GetFetch])
        /\ \A i \in DOMAIN PagesOf(log[StreamFetch]) : PagesOf(log[StreamFetch])[i] = i
        /\ \A i \in DOMAIN probe.yielded :
                probe.yielded[i] =
                    BackendDoc(probe.api_path,
                               SetParam(FirstPageParams(probe.params), "page", i),
                               probe.backend[i].shape)
        /\ Len(probe.yielded) =
                Cardinality({i \in DOMAIN PagesOf(log[StreamFetch]) : PageOk(i)})
        /\ result[StreamFetch].ok = result[GetFetch].ok
        /\ ~result[StreamFetch].ok =>
                /\ result[StreamFetch] = result[GetFetch]
                /\ ~PageOk(1) \/ FirstPageParams(probe.params)["size"] = 0
        /\ result[GetFetch].ok =>
                Concat(probe.yielded) = GetResources(result[GetFetch].doc)

\* both have ended after page 3 failed: the stream has yielded two pages and
\* raised nothing, and get has returned the merge of the two
C36_Witness ==
    /\ pc[GetFetch] = "done" /\ pc[StreamFetch] = "done"
    /\ PagesOf(log[StreamFetch]) = <<1, 2, 3>>
    /\ ~PageOk(3)
    /\ Len(probe.yielded) = 2
    /\ result[StreamFetch].ok
    /\ Len(GetResources(result[GetFetch].doc)) = 2


(* ------------------------------- C37 ---------------------------------- *)

\* the resources the paginator gathers from page on, up to the first page
\* that fails or has no SearchResult
RECURSIVE AlonePages(_, _, _, _)
AlonePages(api_path, rp, page, total_pages) ==
    IF page > total_pages THEN <<>>
    ELSE LET res == ExecuteResult(api_path, SetParam(rp, "page", page),
                                  probe.backend[page])
         IN  IF res.ok /\ res.doc.hasSR
             THEN GetResources(res.doc)
                      \o AlonePages(api_path, rp, page + 1, total_pages)
             ELSE <<>>

\* what the auto-paginated get(api_path, params) returns or raises when it
\* is the only call and the cache is empty
AloneResult(api_path, params) ==
    LET rp == FirstPageParams(params)
        first == ExecuteResult(api_path, rp, probe.backend[1])
    IN  IF ~first.ok \/ ~first.doc.hasSR \/ ~first.doc.hasTotal THEN first
        ELSE IF TotalPages(first.doc.total, rp["size"]) <= 1 THEN first
        ELSE Returned(Combined(first.doc,
                GetResources(first.doc)
                    \o AlonePages(api_path, rp, 2,
                                  TotalPages(first.doc.total, rp["size"]))))

NoDuplicates(seq) == \A i, j \in DOMAIN seq : seq[i] = seq[j] => i = j

\* C37: auto-paginated fetches of the same or of different endpoints that
\* interleave at every page each end as they would alone before the same
\* backend: the merged document has no resource twice and none of another
\* call, and an entry under a 'paginated:' key is the merged document of a
\* call of that key.
C37_ConcurrentAsAlone ==
    /\ \A f \in Fetches :
        pc[f] = "done" =>
            /\ result[f] = AloneResult(call[f].api_path, call[f].params)
            /\ result[f].ok => NoDuplicates(GetResources(result[f].doc))
    /\ \A api_path \in Paths, params \in PaginatedParams :
        LET key == PaginationCacheKey(api_path, FirstPageParams(params))
        IN  CacheHas(cache, key) =>
                /\ AloneResult(api_path, params).ok
                /\ JsonLoads(CacheGet(cache, key)) = AloneResult(api_path, params).doc
                /\ \E f \in Fetches :
                        /\ pc[f] = "done"
                        /\ MergedKey(f) = key
                        /\ result[f] = Returned(JsonLoads(CacheGet(cache, key)))

\* two calls of one endpoint with the same params ran side by side: both
\* requested page 1, the second took a later page from the cache where the
\* first had left it, and both returned the merge of the three pages
C37_Witness ==
    /\ pc[1] = "done" /\ pc[2] = "done"
    /\ call[1].api_path = AuthPath /\ call[2] = call[1]
    /\ call[1].params = SetParam(EmptyParams, "size", 1)
    /\ Len(PagesOf(log[1])) = 3
    /\ 1 \in DOMAIN PagesOf(log[2])
    /\ "hit" \in Kinds(log[2])
    /\ result[1].ok /\ result[2] = result[1]
    /\ Len(GetResources(result[1].doc)) = 3
    /\ CacheHas(cache, MergedKey(1))


(* ------------------------------- C38 ---------------------------------- *)

\* the page the event at position i of the log of f belongs to: the page of
\* the last get before it
PageAt(f, i) ==
    LET gets == {j \in Positions(f, "get") : j < i}
    IN  IF gets = {} THEN 0
        ELSE log[f][CHOOSE j \in gets : \A k \in gets : k <= j].params["page"]

\* the documents the gets of f returned before position i, in order
RECURSIVE ReturnedBefore(_, _)
ReturnedBefore(f, i) ==
    IF i <= 1 THEN <<>>
    ELSE ReturnedBefore(f, i - 1)
            \o (IF log[f][i - 1].ev = "returned" THEN <<log[f][i - 1].doc>> ELSE <<>>)

\* the get of a page from 2 on of the auto-paginated fetch f returned, at
\* position i, a document without SearchResult
PageWithoutSearchResult(f, i) ==
    /\ call[f].auto_paginate
    /\ i \in Positions(f, "returned")
    /\ PageAt(f, i) >= 2
    /\ ~log[f][i].doc.hasSR

\* the step in which the get of a page from 2 on of f returns a document
\* without SearchResult
PageWithoutSearchResultStep(f) ==
    /\ pc[f] # "done"
    /\ Len(log'[f]) > Len(log[f])
    /\ PageWithoutSearchResult(f, Len(log[f]))'

\* C38: a page from 2 on of an auto-paginated fetch that is returned without
\* a SearchResult record ends the fetch like a failed page: nothing is
\* requested after it, nothing is raised, and the merge of the pages before
\* it is returned, and stored under the 'paginated:' key when the cache is
\* in use.
C38_PageWithoutSearchResultStops ==
    /\ [](\A f \in Fetches : \A i \in DOMAIN log[f] :
            PageWithoutSearchResult(f, i) =>
                /\ i = Len(log[f])
                /\ pc[f] = "done"
                /\ result[f] = Returned(Combined(Head(ReturnedBefore(f, i)),
                                                 Concat(ReturnedBefore(f, i)))))
    /\ [][\A f \in Fetches :
            PageWithoutSearchResultStep(f) =>
                /\ pc'[f] = "done"
                /\ call[f].use_cache =>
                        /\ CacheHas(cache', MergedKey(f))
                        /\ CacheGet(cache', MergedKey(f)) = JsonDumps(result'[f].doc)
                /\ ~call[f].use_cache => cache' = cache]_vars

\* page 3 of three came back without SearchResult after two pages, and the
\* merge of the two is returned and in the cache
C38_Witness ==
    /\ PageWithoutSearchResult(1, Len(log[1]))
    /\ PageAt(1, Len(log[1])) = 3
    /\ Len(GetResources(result[1].doc)) = 2
    /\ CacheHas(cache, MergedKey(1))


(* ------------------------------- C39 ---------------------------------- *)

\* the entry of key is written by the step
WrittenStep(key) ==
    /\ CacheHas(cache', key)
    /\ ~CacheHas(cache, key) \/ cache'[key] # cache[key]

\* the step is a cache_config call that changes the TTL or the switch
ConfigChangeStep == cache_ttl' # cache_ttl \/ cache_enabled' # cache_enabled

\* the step is the cache lookup of a get of f that has caching in use and
\* finds its entry
FoundStep(f) ==
    /\ pc[f] = "lookup" /\ pc'[f] # "lookup"
    /\ call[f].use_cache
    /\ CacheHas(cache, SinglePageKey(f))

\* C39: a TTL set through cache_config applies to the entries written after
\* it: an entry is written to expire at the time of the write plus the TTL
\* then in force and is in the cache until that time and not after it,
\* whatever cache_config does in between; cache_config removes and changes
\* no entry, so a get that uses the cache again is served an entry written
\* earlier that has not expired.
C39_TTLOfTheWrite ==
    /\ [](\A key \in DOMAIN cache : now <= cache[key].expires)
    /\ [][/\ \A key \in DOMAIN cache' :
                WrittenStep(key) =>
                    cache'[key].expires = now + cache_ttl * TicksPerSecond
          /\ \A key \in DOMAIN cache :
                ~CacheHas(cache', key) => cache[key].expires <= now'
          /\ ConfigChangeStep => cache' = cache
          /\ \A f \in Fetches :
                FoundStep(f) =>
                    /\ pc'[f] = "done"
                    /\ result'[f] =
                        Returned(JsonLoads(CacheGet(cache, SinglePageKey(f))))]_vars

====
